---- MODULE Spec2Model ----
(***************************************************************************)
(* The manifest control-plane handler of wadm                              *)
(* (crates/wadm/src/server/handlers.rs): put_model, delete_model,          *)
(* deploy_model and undeploy_model running as concurrent tasks against a   *)
(* revisioned model store and a notifier.  Every task is at one of the     *)
(* handler's await points; one action is the code between two awaits.      *)
(***************************************************************************)
EXTENDS Integers, Sequences, FiniteSets, TLC

\* ------------------------------------------------------------------ bounds
\* The store's revision counter is capped: no request starts when the writes
\* still owed by running requests could take it past MaxRev.
MaxRev == 4
MaxComponents == 2
MaxCalls == 2
MaxRuns == 4
MaxParts == 4
MaxLabelName == 63
MaxSubdomain == 253

\* ------------------------------------------------------------- vocabulary
Tasks == {"t1", "t2"}
Names == {"A", "B"}
Versions == {"v1", "v2"}
None == "none"
LATEST_VERSION == "latest"

\* Image references are strings, kept as sequences of characters.
ImgP1 == <<"p", ":", "1">>
ImgP2 == <<"p", ":", "2">>
ImgQ == <<"q">>

Cap(img) == [kind |-> "Capability", image |-> img]
Comp(img) == [kind |-> "Component", image |-> img]

\* The manifests a put request may carry: one document per name and version.
Components(n, v) ==
    IF n = "A" /\ v = "v1" THEN <<Cap(ImgP1)>>
    ELSE IF n = "A" /\ v = "v2" THEN <<Cap(ImgP1), Cap(ImgP2)>>
    ELSE IF n = "B" /\ v = "v1" THEN <<Cap(ImgP2)>>
    ELSE <<Comp(ImgP2), Cap(ImgQ), Cap(ImgP1)>>

Manifests ==
    { [name |-> n, version |-> v, components |-> Components(n, v)] :
        n \in Names, v \in Versions }

\* A document whose metadata.name has whitespace around it, and str::trim on
\* the names of the documents.
PaddedManifests ==
    { [name |-> " A", version |-> "v2", components |-> Components("A", "v2")] }
trim(name) == IF name = " A" THEN "A" ELSE name

\* ------------------------------------------------------- parse_image_ref
RECURSIVE FirstColon(_, _)
FirstColon(s, i) ==
    IF i > Len(s) THEN 0
    ELSE IF s[i] = ":" THEN i
    ELSE FirstColon(s, i + 1)

\* str::split_once(':'): the text before and after the first ':', or <<>> for
\* None.
parse_image_ref(image_name) ==
    LET i == FirstColon(image_name, 1)
    IN  IF i = 0 THEN <<>>
        ELSE <<SubSeq(image_name, 1, i - 1),
               SubSeq(image_name, i + 1, Len(image_name))>>

\* ------------------------------------------------------ validate_manifest
\* The manifests handed to validate_manifest: what the schema and the label
\* checks answer for it, and its components, each with a name, the variant
\* of its properties, an optional id and its traits.
ComponentNames == {"a", "b"}
Link(target) == [kind |-> "Link", target |-> target]
Spreadscaler == [kind |-> "Spreadscaler", target |-> None]
TraitLists ==
    { <<>>, <<Link("b")>>, <<Link("b"), Link("b")>>, <<Link("a"), Link("b")>>,
      <<Spreadscaler, Spreadscaler, Link("a")>> }
Properties ==
    { [kind |-> "Component", id |-> None], [kind |-> "Component", id |-> "i"],
      [kind |-> "Capability", id |-> "i"], [kind |-> "Capability", id |-> "j"] }
SpecComponents ==
    { [name |-> n, kind |-> p.kind, id |-> p.id, traits |-> ts] :
        n \in ComponentNames, p \in Properties, ts \in TraitLists }
ComponentLists == UNION { [1..k -> SpecComponents] : k \in 0..MaxComponents }
ValidatedManifests ==
    { [schema |-> s, labels |-> l, components |-> cs] :
        s \in BOOLEAN, l \in BOOLEAN, cs \in ComponentLists }

\* HashSet::insert: whether the value was new, and the set afterwards.
Insert(set, x) == [new |-> x \notin set, set |-> set \cup {x}]

\* Variant: only a Capability's id goes to the id registry.
SuppliedId_CapabilityOnly(component) ==
    IF component.kind = "Capability" THEN component.id ELSE None

\* Some(id) of the Capability or the Component properties, None otherwise.
SuppliedId(component) ==
    IF component.kind \in {"Capability", "Component"} THEN component.id ELSE None

\* The loop over one component's traits: each Link target is inserted into
\* the component's own linkdef_set, a duplicate ending the validation, and
\* into required_capability_components.
RECURSIVE LinkdefLoop(_, _, _, _)
LinkdefLoop(traits, j, linkdef_set, required) ==
    IF j > Len(traits) THEN [err |-> None, required |-> required]
    ELSE IF traits[j].kind # "Link"
    THEN LinkdefLoop(traits, j + 1, linkdef_set, required)
    ELSE IF ~Insert(linkdef_set, traits[j].target).new
    THEN [err |-> "duplicate_target", required |-> required]
    ELSE LinkdefLoop(traits, j + 1, Insert(linkdef_set, traits[j].target).set,
                     required \cup {traits[j].target})

\* The loop over manifest.spec.components, then the check of the targets
\* against the names: the first error, or None.
RECURSIVE ComponentLoop(_, _, _, _, _)
ComponentLoop(components, i, name_registry, id_registry, required) ==
    IF i > Len(components)
    THEN (IF required \ name_registry # {} THEN "missing_capability" ELSE None)
    ELSE LET component == components[i]
             id == SuppliedId(component)
             links == LinkdefLoop(component.traits, 1, {}, required)
         IN  IF ~Insert(name_registry, component.name).new THEN "duplicate_name"
             ELSE IF id # None /\ ~Insert(id_registry, id).new THEN "duplicate_id"
             ELSE IF links.err # None THEN links.err
             ELSE ComponentLoop(components, i + 1,
                                Insert(name_registry, component.name).set,
                                IF id = None THEN id_registry
                                ELSE Insert(id_registry, id).set,
                                links.required)

\* Ok(()) is None, Err(..) the rule that failed.
validate_manifest(manifest) ==
    IF ~manifest.schema THEN "schema"
    ELSE IF ~manifest.labels THEN "labels"
    ELSE ComponentLoop(manifest.components, 1, {}, {}, {})

\* No manifest under validation; initialized tells whether the process-wide
\* schema cells hold the compiled schema.
NoValidation ==
    [manifest |-> [schema |-> TRUE, labels |-> TRUE, components |-> <<>>],
     results |-> <<>>, initialized |-> FALSE]

\* -------------------------------------------------------- valid_oam_label
\* A string is written as its runs: <<[ch |-> "a", n |-> 63], [ch |-> "/",
\* n |-> 1]>> is 63 times 'a' and a slash.  'a' stands for the ASCII
\* letters, '1' for the digits, '!' for every other character.
Chars == {"a", "1", "-", "_", ".", "/", "!"}
Run(ch, n) == [ch |-> ch, n |-> n]
Runs == {Run(ch, 1) : ch \in Chars} \cup {Run("a", 62), Run("a", 63)}
ShortStrings == UNION { [1..k -> Runs] : k \in 0..MaxRuns }

\* Dotted names of long parts, as a prefix before a short name.
PartLengths == {61, 62, 63}
RECURSIVE Dotted(_, _)
Dotted(lengths, i) ==
    IF i > Len(lengths) THEN <<>>
    ELSE (IF i = 1 THEN <<>> ELSE <<Run(".", 1)>>)
         \o <<Run("a", lengths[i])>> \o Dotted(lengths, i + 1)
LongPrefixes ==
    { Dotted(lengths, 1) : lengths \in UNION { [1..k -> PartLengths] : k \in 1..MaxParts } }
LabelKeys ==
    ShortStrings \cup { pre \o <<Run("/", 1), Run("a", 1)>> : pre \in LongPrefixes }
LabelValues == { <<>>, <<Run("!", 1), Run("/", 1)>> }

\* str::len, in bytes.
RECURSIVE StrLen(_)
StrLen(s) == IF s = <<>> THEN 0 ELSE Head(s).n + StrLen(Tail(s))
is_ascii_alphabetic(ch) == ch = "a"
is_ascii_alphanumeric(ch) == ch \in {"a", "1"}

\* The index of the first run of character ch in s, or 0.
RECURSIVE Find(_, _, _)
Find(s, ch, i) ==
    IF i > Len(s) THEN 0
    ELSE IF s[i].ch = ch THEN i
    ELSE Find(s, ch, i + 1)

\* str::split('.'): the parts between the dots, empty ones included.
RECURSIVE Split(_, _)
Split(s, ch) ==
    LET i == Find(s, ch, 1)
    IN  IF i = 0 THEN <<s>>
        ELSE IF s[i].n = 1
        THEN <<SubSeq(s, 1, i - 1)>> \o Split(SubSeq(s, i + 1, Len(s)), ch)
        ELSE <<SubSeq(s, 1, i - 1)>>
             \o Split(<<Run(ch, s[i].n - 1)>> \o SubSeq(s, i + 1, Len(s)), ch)

is_valid_label_name(name) ==
    IF name = <<>> \/ StrLen(name) > MaxLabelName THEN FALSE
    ELSE /\ is_ascii_alphanumeric(name[1].ch)
         /\ is_ascii_alphanumeric(name[Len(name)].ch)
         /\ \A i \in DOMAIN name :
                is_ascii_alphanumeric(name[i].ch) \/ name[i].ch \in {"-", "_", "."}

ValidPart(part) ==
    /\ part # <<>>
    /\ StrLen(part) <= MaxLabelName
    /\ is_ascii_alphabetic(part[1].ch)
    /\ is_ascii_alphanumeric(part[Len(part)].ch)
    /\ \A i \in DOMAIN part : is_ascii_alphanumeric(part[i].ch) \/ part[i].ch = "-"

\* Variant: the length of the whole prefix is not looked at.
is_valid_dns_subdomain_AnyLength(s) ==
    IF s = <<>> THEN FALSE
    ELSE \A k \in DOMAIN Split(s, ".") : ValidPart(Split(s, ".")[k])

is_valid_dns_subdomain(s) ==
    IF s = <<>> \/ StrLen(s) > MaxSubdomain THEN FALSE
    ELSE \A k \in DOMAIN Split(s, ".") : ValidPart(Split(s, ".")[k])

\* key.split_once('/') and the two checks; the value is not read.
valid_oam_label(key, value) ==
    LET i == Find(key, "/", 1)
    IN  IF i # 0
        THEN /\ is_valid_dns_subdomain(SubSeq(key, 1, i - 1))
             /\ is_valid_label_name(SubSeq(key, i + 1, Len(key)))
        ELSE is_valid_label_name(key)

NoLabel == [key |-> <<>>, value |-> <<>>, results |-> <<>>]

\* ------------------------------------------------------- StoredManifest
\* The aggregate of crate::model; its methods are used by the handler.
EmptySM == [manifests |-> <<>>, deployed_version |-> None]
\* Option<&Manifest>::None
NoManifest == [name |-> None, version |-> None, components |-> <<>>]

is_empty(sm) == Len(sm.manifests) = 0
count(sm) == Len(sm.manifests)
all_versions(sm) == [i \in 1..Len(sm.manifests) |-> sm.manifests[i].version]
has_version(sm, v) == \E i \in 1..Len(sm.manifests) : sm.manifests[i].version = v
get_version(sm, v) ==
    IF has_version(sm, v)
    THEN sm.manifests[CHOOSE i \in 1..Len(sm.manifests) : sm.manifests[i].version = v]
    ELSE NoManifest
get_current(sm) == sm.manifests[Len(sm.manifests)]
deployed_version(sm) == sm.deployed_version
is_deployed(sm, v) == sm.deployed_version = v
get_deployed(sm) ==
    IF sm.deployed_version = None THEN NoManifest
    ELSE get_version(sm, sm.deployed_version)
\* name(): metadata.name of the first version, "" for the empty aggregate.
sm_name(sm) == IF is_empty(sm) THEN "" ELSE sm.manifests[1].name

\* Variant: a version is appended whether or not the aggregate has it.
add_version_Always(sm, m) ==
    [ok |-> TRUE, sm |-> [sm EXCEPT !.manifests = Append(@, m)]]

\* Variant: the version added becomes the deployed one.
add_version_Deploys(sm, m) ==
    IF has_version(sm, m.version) THEN [ok |-> FALSE, sm |-> sm]
    ELSE [ok |-> TRUE, sm |-> [sm EXCEPT !.manifests = Append(@, m),
                                         !.deployed_version = m.version]]

\* The mutating methods: ok is the bool returned, sm the aggregate afterwards.
add_version(sm, m) ==
    IF has_version(sm, m.version) THEN [ok |-> FALSE, sm |-> sm]
    ELSE [ok |-> TRUE, sm |-> [sm EXCEPT !.manifests = Append(@, m)]]

delete_version(sm, v) ==
    [ok |-> has_version(sm, v),
     sm |-> [sm EXCEPT !.manifests = SelectSeq(@, LAMBDA m : m.version # v)]]

deploy(sm, v) ==
    LET target == IF v = None \/ v = LATEST_VERSION
                  THEN (IF is_empty(sm) THEN None ELSE get_current(sm).version)
                  ELSE v
    IN  IF target # None /\ has_version(sm, target)
        THEN [ok |-> TRUE, sm |-> [sm EXCEPT !.deployed_version = target]]
        ELSE [ok |-> FALSE, sm |-> sm]

undeploy(sm) ==
    [ok |-> sm.deployed_version # None, sm |-> [sm EXCEPT !.deployed_version = None]]

\* ------------------------------------------------------------ ModelStorage
\* A row of the store: the aggregate and its revision.  A key without a row
\* reads as None, which the handlers take as (StoredManifest::default(), 0).
Absent == [sm |-> EmptySM, rev |-> 0]
Row(sm, r) == [sm |-> sm, rev |-> r]
\* A failed store.get, no store.get at all, no successful store write.
ErrRow == [sm |-> EmptySM, rev |-> -1]
NoGet == [sm |-> EmptySM, rev |-> -2]
NoWrite == [sm |-> EmptySM, rev |-> -1]
NameOrder == <<"A", "B">>

\* ------------------------------------------------------------------ state
VARIABLES
    store,   \* ModelStorage: Names -> row
    seq,     \* the store's revision counter of each key
    task,    \* each task's request, await point and handler locals
    last,    \* the request the latest step finished: its reply and notifications
    validated, \* the manifest given to validate_manifest, what its calls
               \* answered, and whether the schema cells are initialized
    label,   \* the label given to valid_oam_label and what its calls answered
    cells,   \* JSON_SCHEMA_VALUE and OAM_JSON_SCHEMA, and the tasks that call
             \* validate_manifest at the same time
    prev     \* the request the client got answered last, kept for a retry when
             \* its write was made and its notification failed; followed where
             \* one task serves, so that nothing comes in between

vars == <<store, seq, task, last, prev, validated, cells, label>>

\* ----------------------------------------------------------- schema cells
\* The two OnceCell statics.  id is the instance a cell holds (0: unset),
\* made counts the instances its initializer has produced, holder is the
\* task that has the cell's permit, ok tells whether the initializer (parsing
\* the schema text, compiling the schema) succeeds.  Each task is idle or
\* inside get_or_try_init of cell `on`, and used is the compiled schema its
\* last validation ran against.
JSON_SCHEMA_VALUE == "JSON_SCHEMA_VALUE"
OAM_JSON_SCHEMA == "OAM_JSON_SCHEMA"
Cells == {JSON_SCHEMA_VALUE, OAM_JSON_SCHEMA}
NoCells ==
    [id |-> [c \in Cells |-> 0], made |-> [c \in Cells |-> 0],
     holder |-> [c \in Cells |-> None], ok |-> [c \in Cells |-> TRUE],
     pc |-> [t \in Tasks |-> "idle"], on |-> [t \in Tasks |-> JSON_SCHEMA_VALUE],
     calls |-> [t \in Tasks |-> 0], used |-> [t \in Tasks |-> 0]]

\* ------------------------------------------------------------- status log
\* The last raw message on wadm.status.<lattice>.<name>, as the status stream
\* hands it out: none, or a payload that is base64 text or not, of a JSON
\* body that is a StatusInfo or not.
StatusTypes == {"Undeployed", "Reconciling", "Deployed", "Failed", "Waiting"}
StatusInfo(ty, message) == [status_type |-> ty, message |-> message]
NoStatus == StatusInfo(None, None)
\* StatusInfo::default()
DefaultStatus == StatusInfo("Undeployed", "")
Raw(b64, json, body) == [present |-> TRUE, b64 |-> b64, json |-> json, body |-> body]
NoMessage == [present |-> FALSE, b64 |-> FALSE, json |-> FALSE, body |-> NoStatus]
RawMessages ==
    { NoMessage,
      Raw(TRUE, TRUE, StatusInfo("Deployed", "ready")),
      Raw(FALSE, TRUE, StatusInfo("Deployed", "ready")),
      Raw(TRUE, FALSE, NoStatus) }
\* The raw messages a request read from the status stream, in reading order.
NoEntries == <<>>

NoReq ==
    [verb |-> None, name |-> None, version |-> None, valid |-> TRUE,
     entries |-> NoEntries]
NoReply ==
    [result |-> None, msg |-> None, undeploy |-> FALSE,
     version |-> None, total |-> 0, detail |-> <<>>]
NoLoc == [pending |-> <<>>, refs |-> <<>>, man |-> NoManifest]

\* A task that serves no request.  A serving task has
\*   pc    the await point it is at,
\*   req   the request,
\*   got   what store.get of the request's key returned,
\*   wrote the row its successful store call left under the key,
\*   cur   the local StoredManifest (current_manifests / current / manifests),
\*   rev   current_revision,
\*   resp  the local response (resp / reply_data / reply),
\*   loc   deploy_model's stored_models left, existing_provider_refs, manifest,
\*   faults the calls of the request that returned Err so far.
Idle ==
    [pc |-> "idle", req |-> NoReq, got |-> NoGet, wrote |-> NoWrite,
     cur |-> EmptySM, rev |-> 0, resp |-> NoReply, loc |-> NoLoc, faults |-> {}]

\* A call of the request returned Err: "get", "list", "delete" or "publish";
\* for store.set, "conflict" when the revision was not the expected one and
\* "set" when the store failed.
Failed(tr, call) == [tr EXCEPT !.faults = @ \cup {call}]
SetFault(n, ok) == IF ok /\ n \in Names THEN "conflict" ELSE "set"

Req(verb, n, v, valid) ==
    [NoReq EXCEPT !.verb = verb, !.name = n, !.version = v, !.valid = valid]
Rep(result, msg) == [NoReply EXCEPT !.result = result, !.msg = msg]
\* send_error: {"result": "error", "message": ...}
send_error(msg) == Rep("Error", msg)
Undeployed(n) == [kind |-> "undeployed", name |-> n, version |-> None]
Deployed(m) == [kind |-> "deployed", name |-> m.name, version |-> m.version]

\* No request finished in the latest step.
NoLast ==
    [req |-> NoReq, got |-> NoGet, wrote |-> NoWrite, reply |-> NoReply, notes |-> <<>>,
     faults |-> {}, subject |-> TRUE, published |-> <<>>]

Init ==
    /\ store = [n \in Names |-> Absent]
    /\ seq = [n \in Names |-> 0]
    /\ task = [t \in Tasks |-> Idle]
    /\ last = NoLast
    /\ prev = NoLast
    /\ validated = NoValidation
    /\ cells = NoCells
    /\ label = NoLabel

\* Await points that come before the request's store write.
PreWrite == {"put_set", "del_set", "del_last", "dep_list", "dep_fetch", "dep_set", "und_set"}
Owed == Cardinality({u \in Tasks : task[u].pc \in PreWrite})
RECURSIVE SumSeq(_)
SumSeq(S) == IF S = {} THEN 0 ELSE LET n == CHOOSE x \in S : TRUE IN seq[n] + SumSeq(S \ {n})
Writes == SumSeq(Names)

\* Await points at which only the notifier publish and the reply are left.
NotifyPoints == {"del_notify", "dep_notify", "und_notify"}

\* Task t is at await point p and takes its next step.  Publishing touches
\* neither the store nor another task, so it commutes with every step of the
\* other tasks: a task that has only its publish left runs first, and a
\* published reply is taken by its client before the handlers go on.
At(t, p) ==
    /\ last = NoLast
    /\ task[t].pc = p
    /\ p \notin NotifyPoints => \A u \in Tasks : task[u].pc \notin NotifyPoints

\* A request that writes nothing (get_model, list_models, list_versions,
\* model_status, a payload that does not parse) has at most one store call and
\* its reply depends on the store at that call alone.  Such requests are
\* served between the others: every value of the store occurs there as well,
\* since a running request may fail its next call and end.  Which of the free
\* tasks serves it makes no difference: one of them does.
CanRead(t) ==
    /\ last = NoLast
    /\ \A u \in Tasks : task[u].pc \in {"idle", "off"}
    /\ t = CHOOSE u \in Tasks : task[u].pc = "idle"

Readers == {t \in Tasks : CanRead(t)}

\* A task takes a new request when it serves none.
CanStart(t) ==
    /\ At(t, "idle")
    /\ Writes + Owed < MaxRev

\* The answered request stays remembered while the steps taken are those of the
\* same request issued again; a step of any other request ends the retry.
Retried(tr) == IF tr.req = prev.req THEN prev ELSE NoLast

\* Variant of send_reply: the data is published whether or not the message
\* came with a reply subject.
send_reply_Always(reply, data, ok) == IF ok THEN <<data>> ELSE <<>>

\* send_reply: what goes out on the reply subject.  reply tells whether
\* msg.reply is Some, ok whether client.publish succeeds; a failed publish is
\* logged and nothing else is done.
send_reply(reply, data, ok) == IF reply /\ ok THEN <<data>> ELSE <<>>

\* The request of task record tr is over: the handler calls send_reply with
\* the message's reply subject and r, after the notifications ns of the
\* request.  msg.reply is handed to send_reply and send_error and read
\* nowhere else, so whether the message has one is drawn here.  It changes
\* nothing another request reads: messages without a reply subject and
\* failing publishes are followed where one task serves.
ReplyCases ==
    IF Cardinality({u \in Tasks : task[u].pc # "off"}) = 1
    THEN {<<TRUE, TRUE>>, <<TRUE, FALSE>>, <<FALSE, TRUE>>}
    ELSE {<<TRUE, TRUE>>}
Finish(t, tr, r, ns) ==
    /\ task' = [task EXCEPT ![t] = Idle]
    /\ \E case \in ReplyCases :
         LET reply == case[1]
             ok == case[2]
         IN
           last' = [req |-> tr.req, got |-> tr.got, wrote |-> tr.wrote,
                    reply |-> r, notes |-> ns, faults |-> tr.faults,
                    subject |-> reply, published |-> send_reply(reply, r, ok)]
    /\ prev' = Retried(tr)
    /\ UNCHANGED <<validated, cells, label>>

\* The request goes on: the task is suspended with record tr.
Goto(t, tr) ==
    /\ task' = [task EXCEPT ![t] = tr]
    /\ last' = NoLast
    /\ prev' = Retried(tr)
    /\ UNCHANGED <<validated, cells, label>>

\* store.get(.., name): ErrRow when the call fails, else the row (Absent for None).
StoreGet(n, ok) == IF ok THEN store[n] ELSE ErrRow

\* store.set(.., sm, Some(expected)): the row is written under the key made
\* of the aggregate's own name, and the write happens iff the call does not
\* fail and the revision of the row under that key is the expected one.  A
\* name with whitespace in it makes no key of the store: the call fails.
SetOk(n, expected, ok) == ok /\ n \in Names /\ store[n].rev = expected
StoreSet(n, sm) ==
    /\ seq' = [seq EXCEPT ![n] = @ + 1]
    /\ store' = [store EXCEPT ![n] = Row(sm, seq[n] + 1)]
\* store.delete(.., name): unconditional.
StoreDelete(n) ==
    /\ seq' = [seq EXCEPT ![n] = @ + 1]
    /\ store' = [store EXCEPT ![n] = Absent]

\* -------------------------------------------------------------- put_model
\* Variant: the result is chosen after add_version, when the aggregate is
\* never empty.
PutModelResponse_AfterAdd(sm, m) ==
    [NoReply EXCEPT !.result = "NewVersion", !.msg = "put_ok", !.version = m.version]

\* The response built before add_version: Created iff the aggregate is empty.
PutModelResponse(sm, m) ==
    [NoReply EXCEPT
        !.result = IF is_empty(sm) THEN "Created" ELSE "NewVersion",
        !.msg = "put_ok",
        !.version = m.version]

\* Variant: the answer of validate_manifest is not looked at.
PutAdd_SkipValidation(sm, m, valid) ==
    IF ~add_version(sm, m).ok THEN [err |-> "exists", sm |-> sm]
    ELSE [err |-> None, sm |-> add_version(sm, m).sm]

\* Variant: the bool add_version returns is not looked at.
PutAdd_IgnoreExists(sm, m, valid) ==
    IF ~valid THEN [err |-> "validation", sm |-> sm]
    ELSE [err |-> None, sm |-> add_version(sm, m).sm]

\* validate_manifest, then add_version: the error to reply, or None and the
\* aggregate to store.
PutAdd(sm, m, valid) ==
    IF ~valid THEN [err |-> "validation", sm |-> sm]
    ELSE IF ~add_version(sm, m).ok THEN [err |-> "exists", sm |-> sm]
    ELSE [err |-> None, sm |-> add_version(sm, m).sm]

\* Parse, check version and name, store.get, validate_manifest, add_version.
\* pre tells which of the early checks the payload fails, valid what
\* validate_manifest answers, ok whether store.get succeeds.
PutGet(t, m, pre, valid, ok) ==
    /\ CanStart(t)
    /\ UNCHANGED <<store, seq>>
    /\ IF pre # "ok"
       THEN Finish(t, [Idle EXCEPT !.req = Req("put", None, None, valid)],
                   send_error(pre), <<>>)
       ELSE LET manifest_name == trim(m.name)
                row == store[manifest_name]
                tr == [Idle EXCEPT !.req = Req("put", manifest_name, m.version, valid),
                                   !.got = StoreGet(manifest_name, ok)]
                rp == PutModelResponse(row.sm, m)
                added == PutAdd(row.sm, m, valid)
            IN  IF ~ok THEN Finish(t, Failed(tr, "get"), send_error("storage"), <<>>)
                ELSE IF added.err # None THEN Finish(t, tr, send_error(added.err), <<>>)
                ELSE Goto(t, [tr EXCEPT !.pc = "put_set", !.cur = added.sm, !.rev = row.rev,
                                        !.resp = [rp EXCEPT !.total = count(added.sm)]])

\* store.set and the reply.
\* Variant of PutSet that, told of a revision conflict, writes once more
\* without the revision.
PutSet_RetryOnConflict(t, ok) ==
    /\ At(t, "put_set")
    /\ LET tr == task[t]
       IN  IF ok
           THEN /\ StoreSet(tr.req.name, tr.cur)
                /\ Finish(t, [(IF store[tr.req.name].rev = tr.rev
                                THEN tr ELSE Failed(tr, "conflict"))
                                 EXCEPT !.wrote = Row(tr.cur, seq[tr.req.name] + 1)],
                          tr.resp, <<>>)
           ELSE /\ UNCHANGED <<store, seq>>
                /\ Finish(t, Failed(tr, "set"), send_error("storage"), <<>>)

PutSet(t, ok) ==
    /\ At(t, "put_set")
    /\ LET tr == task[t]
       IN  IF SetOk(sm_name(tr.cur), tr.rev, ok)
           THEN /\ StoreSet(sm_name(tr.cur), tr.cur)
                /\ Finish(t, [tr EXCEPT !.wrote = Row(tr.cur, seq[tr.req.name] + 1)],
                          tr.resp, <<>>)
           ELSE /\ UNCHANGED <<store, seq>>
                /\ Finish(t, Failed(tr, SetFault(sm_name(tr.cur), ok)), send_error("storage"), <<>>)

\* ---------------------------------------------------------- list_versions
\* The versions of the VersionResponse for a stored aggregate: in insertion
\* order, each with its deployed flag.
list_versions_FlagCurrent(sm) ==
    [i \in DOMAIN all_versions(sm) |->
        [version |-> all_versions(sm)[i], deployed |-> i = Len(all_versions(sm))]]

list_versions(sm) ==
    [i \in DOMAIN all_versions(sm) |->
        [version |-> all_versions(sm)[i], deployed |-> is_deployed(sm, all_versions(sm)[i])]]

\* ----------------------------------------------------------- delete_model
DeleteModelResponse(result, msg, undeployFlag) ==
    [NoReply EXCEPT !.result = result, !.msg = msg, !.undeploy = undeployFlag]

\* Variant: the notification is sent only on a Noop.
DeleteTail_NoopOnly(t, tr, rp) ==
    IF rp.result = "Noop"
    THEN Goto(t, [tr EXCEPT !.pc = "del_notify", !.cur = EmptySM, !.rev = 0, !.resp = rp])
    ELSE Finish(t, tr, rp, <<>>)

\* Variant: the notification is sent only when the response says undeploy.
DeleteTail_UndeployOnly(t, tr, rp) ==
    IF rp.undeploy
    THEN Goto(t, [tr EXCEPT !.pc = "del_notify", !.cur = EmptySM, !.rev = 0, !.resp = rp])
    ELSE Finish(t, tr, rp, <<>>)

\* The end of delete_model: the undeploy notification is owed when the
\* response says undeploy or is a Noop; otherwise the response is the reply.
DeleteTail(t, tr, rp) ==
    IF rp.undeploy \/ rp.result = "Noop"
    THEN Goto(t, [tr EXCEPT !.pc = "del_notify", !.cur = EmptySM, !.rev = 0, !.resp = rp])
    ELSE Finish(t, tr, rp, <<>>)

\* Variant: the hint is set whenever some version is deployed.
UndeployHint_Any(current, v) == deployed_version(current) # None

\* Whether the version deleted was the deployed one.
UndeployHint(current, v) == deployed_version(current) = v

\* Variant: the handler stores the aggregate as delete_version left it.
DeleteUndeploy_Keep(current, v) == current

\* "If the version we deleted was the deployed one, undeploy it".
DeleteUndeploy(current, v) ==
    IF UndeployHint(current, v) THEN undeploy(current).sm ELSE current

\* delete_model with a version: store.get, delete_version and the choice of
\* the store call that follows.
DeleteGet(t, n, v, ok) ==
    /\ CanStart(t)
    /\ UNCHANGED <<store, seq>>
    /\ LET row == store[n]
           tr == [Idle EXCEPT !.req = Req("delete", n, v, TRUE), !.got = StoreGet(n, ok)]
           deleted == delete_version(row.sm, v).ok
           current == delete_version(row.sm, v).sm
           undeployFlag == UndeployHint(current, v)
       IN  IF ~ok THEN DeleteTail(t, Failed(tr, "get"),
                                 DeleteModelResponse("Error", "storage", FALSE))
           ELSE IF row = Absent
           THEN DeleteTail(t, tr, DeleteModelResponse("Noop", "no_model", FALSE))
           ELSE IF deleted /\ ~is_empty(current)
           THEN Goto(t, [tr EXCEPT
                    !.pc = "del_set",
                    !.cur = DeleteUndeploy(current, v),
                    !.rev = row.rev,
                    !.resp = DeleteModelResponse("Deleted", "deleted_version", undeployFlag)])
           ELSE IF deleted /\ is_empty(current)
           THEN Goto(t, [tr EXCEPT !.pc = "del_last", !.cur = current, !.rev = row.rev])
           ELSE DeleteTail(t, tr, DeleteModelResponse("Noop", "no_version", FALSE))

\* store.set of the aggregate that still has versions.
DeleteSet(t, ok) ==
    /\ At(t, "del_set")
    /\ LET tr == task[t]
       IN  IF SetOk(sm_name(tr.cur), tr.rev, ok)
           THEN /\ StoreSet(sm_name(tr.cur), tr.cur)
                /\ DeleteTail(t, [tr EXCEPT !.wrote = Row(tr.cur, seq[tr.req.name] + 1)],
                              tr.resp)
           ELSE /\ UNCHANGED <<store, seq>>
                /\ DeleteTail(t, Failed(tr, SetFault(sm_name(tr.cur), ok)),
                              DeleteModelResponse("Error", "storage", FALSE))

\* store.delete after the last version was deleted.
DeleteLast(t, ok) ==
    /\ At(t, "del_last")
    /\ LET tr == task[t]
       IN  IF ok
           THEN /\ StoreDelete(tr.req.name)
                /\ DeleteTail(t, [tr EXCEPT !.wrote = Absent],
                              DeleteModelResponse("Deleted", "deleted_last", TRUE))
           ELSE /\ UNCHANGED <<store, seq>>
                /\ DeleteTail(t, Failed(tr, "delete"),
                              DeleteModelResponse("Deleted", "storage", FALSE))

\* delete_model without a version: store.delete of the whole model.
DeleteAll(t, n, ok) ==
    /\ CanStart(t)
    /\ LET tr == [Idle EXCEPT !.req = Req("delete", n, None, TRUE)]
       IN  IF ok
           THEN /\ StoreDelete(n)
                /\ DeleteTail(t, [tr EXCEPT !.wrote = Absent],
                              DeleteModelResponse("Deleted", "deleted_model", TRUE))
           ELSE /\ UNCHANGED <<store, seq>>
                /\ DeleteTail(t, Failed(tr, "delete"),
                              DeleteModelResponse("Error", "storage", FALSE))

\* notifier.undeployed and the reply.
DeleteNotify(t, ok) ==
    /\ At(t, "del_notify")
    /\ UNCHANGED <<store, seq>>
    /\ LET tr == task[t]
       IN  IF ok
           THEN Finish(t, tr, tr.resp, <<Undeployed(tr.req.name)>>)
           ELSE Finish(t, Failed(tr, "publish"),
                       DeleteModelResponse("Error", "notify_failed", FALSE), <<>>)

\* --------------------------------------------------------- undeploy_model
DeployModelResponse(result, msg) == Rep(result, msg)

\* Variant: an aggregate that was already undeployed is acknowledged without
\* the notification.
UndeployGet_NoResend(t, n, ok) ==
    /\ CanStart(t)
    /\ UNCHANGED <<store, seq>>
    /\ LET row == store[n]
           tr == [Idle EXCEPT !.req = Req("undeploy", n, None, TRUE), !.got = StoreGet(n, ok)]
       IN  IF ~ok THEN Finish(t, Failed(tr, "get"), send_error("storage"), <<>>)
           ELSE IF row = Absent
           THEN Finish(t, tr, DeployModelResponse("NotFound", "not_found"), <<>>)
           ELSE IF undeploy(row.sm).ok
           THEN Goto(t, [tr EXCEPT !.pc = "und_set", !.cur = undeploy(row.sm).sm,
                                   !.rev = row.rev])
           ELSE Finish(t, tr, DeployModelResponse("Acknowledged", "already_undeployed"), <<>>)

\* store.get and manifests.undeploy().
UndeployGet(t, n, ok) ==
    /\ CanStart(t)
    /\ UNCHANGED <<store, seq>>
    /\ LET row == store[n]
           tr == [Idle EXCEPT !.req = Req("undeploy", n, None, TRUE), !.got = StoreGet(n, ok)]
       IN  IF ~ok THEN Finish(t, Failed(tr, "get"), send_error("storage"), <<>>)
           ELSE IF row = Absent
           THEN Finish(t, tr, DeployModelResponse("NotFound", "not_found"), <<>>)
           ELSE IF undeploy(row.sm).ok
           THEN Goto(t, [tr EXCEPT !.pc = "und_set", !.cur = undeploy(row.sm).sm,
                                   !.rev = row.rev])
           ELSE Goto(t, [tr EXCEPT
                    !.pc = "und_notify",
                    !.resp = DeployModelResponse("Acknowledged", "already_undeployed")])

\* store.set of the undeployed aggregate.
UndeploySet(t, ok) ==
    /\ At(t, "und_set")
    /\ LET tr == task[t]
       IN  IF SetOk(sm_name(tr.cur), tr.rev, ok)
           THEN /\ StoreSet(sm_name(tr.cur), tr.cur)
                /\ Goto(t, [tr EXCEPT
                        !.pc = "und_notify", !.cur = EmptySM, !.rev = 0,
                        !.wrote = Row(tr.cur, seq[tr.req.name] + 1),
                        !.resp = DeployModelResponse("Acknowledged", "undeployed")])
           ELSE /\ UNCHANGED <<store, seq>>
                /\ Finish(t, Failed(tr, SetFault(sm_name(tr.cur), ok)),
                          DeployModelResponse("Error", "storage"), <<>>)

\* notifier.undeployed and the reply.
\* Variant of UndeployNotify that publishes only for a request that wrote.
UndeployNotify_OnlyAfterWrite(t, ok) ==
    /\ At(t, "und_notify")
    /\ UNCHANGED <<store, seq>>
    /\ LET tr == task[t]
       IN  IF ok
           THEN Finish(t, tr, tr.resp,
                       IF tr.wrote # NoWrite THEN <<Undeployed(tr.req.name)>> ELSE <<>>)
           ELSE Finish(t, Failed(tr, "publish"),
                       DeployModelResponse("Error", "notify_failed"), <<>>)

UndeployNotify(t, ok) ==
    /\ At(t, "und_notify")
    /\ UNCHANGED <<store, seq>>
    /\ LET tr == task[t]
       IN  IF ok
           THEN Finish(t, tr, tr.resp, <<Undeployed(tr.req.name)>>)
           ELSE Finish(t, Failed(tr, "publish"),
                       DeployModelResponse("Error", "notify_failed"), <<>>)

\* ----------------------------------------------------------- deploy_model
\* store.list(..): a summary per stored model, in the store's listing order.
StoreList ==
    LET present == SelectSeq(NameOrder, LAMBDA n : store[n] # Absent)
    IN  [i \in 1..Len(present) |->
            [name |-> present[i],
             deployed_version |-> store[present[i]].sm.deployed_version]]

\* The loop over stored_models skips the models without a deployed version.
DeployedNames(summaries) ==
    LET kept == SelectSeq(summaries, LAMBDA ms : ms.deployed_version # None)
    IN  [i \in 1..Len(kept) |-> kept[i].name]

\* HashMap::insert on existing_provider_refs.
RefsInsert(refs, k, val) ==
    [x \in (DOMAIN refs) \cup {k} |-> IF x = k THEN val ELSE refs[x]]

\* The inner loop over the deployed manifest's components: each Capability
\* whose image parses is inserted under its repository, a later one replacing
\* an earlier one.
RECURSIVE InsertCapabilities(_, _, _, _)
InsertCapabilities(refs, components, i, source) ==
    IF i > Len(components) THEN refs
    ELSE LET c == components[i]
             parsed == parse_image_ref(c.image)
         IN  IF c.kind = "Capability" /\ parsed # <<>>
             THEN InsertCapabilities(RefsInsert(refs, parsed[1], <<parsed[2], source>>),
                                     components, i + 1, source)
             ELSE InsertCapabilities(refs, components, i + 1, source)

\* Variant: the model being deployed is not excluded.
CollectRefs_Self(refs, stored_manifest, key, name) ==
    IF get_deployed(stored_manifest) # NoManifest
    THEN InsertCapabilities(refs, get_deployed(stored_manifest).components, 1,
                            sm_name(stored_manifest))
    ELSE refs

\* The body of the loop for one fetched aggregate.
CollectRefs(refs, stored_manifest, key, name) ==
    IF sm_name(stored_manifest) # name /\ get_deployed(stored_manifest) # NoManifest
    THEN InsertCapabilities(refs, get_deployed(stored_manifest).components, 1,
                            sm_name(stored_manifest))
    ELSE refs

\* The loop over the staged model's components: the first Capability whose
\* repository is in existing_provider_refs with another version (its image and
\* the manifest the other version came from), or <<>> when there is none.
RECURSIVE FirstConflict(_, _, _)
FirstConflict(components, i, refs) ==
    IF i > Len(components) THEN <<>>
    ELSE LET c == components[i]
             parsed == parse_image_ref(c.image)
         IN  IF /\ c.kind = "Capability"
                /\ parsed # <<>>
                /\ parsed[1] \in DOMAIN refs
                /\ refs[parsed[1]][1] # parsed[2]
             THEN <<c.image, refs[parsed[1]][2]>>
             ELSE FirstConflict(components, i + 1, refs)

\* Variant: "latest" is looked up like any version string.
StagedModel_LatestLiteral(sm, v) ==
    IF v = None THEN get_current(sm) ELSE get_version(sm, v)

\* staged_model: the version the request names, or the current one.
StagedModel(sm, v) ==
    IF v = None \/ v = LATEST_VERSION THEN get_current(sm) ELSE get_version(sm, v)

\* After the loop over stored_models: the conflict check, manifests.deploy
\* and the manifest to publish.
DeployCheck(t, tr, staged, refs) ==
    LET conflict == FirstConflict(staged.components, 1, refs)
        deployed == deploy(tr.cur, tr.req.version).sm
    IN  IF conflict # <<>>
        THEN Finish(t, tr, [send_error("conflict") EXCEPT !.detail = conflict], <<>>)
        ELSE IF ~deploy(tr.cur, tr.req.version).ok
        THEN Finish(t, tr, DeployModelResponse("Error", "no_such_version"), <<>>)
        ELSE Goto(t, [tr EXCEPT
                 !.pc = "dep_set",
                 !.cur = deployed,
                 !.loc = [NoLoc EXCEPT
                            !.man = get_version(deployed, deployed_version(deployed))]])

\* The loop goes on while deployed models are left to fetch.
DeployLoop(t, tr, pending, staged, refs) ==
    IF pending = <<>>
    THEN DeployCheck(t, tr, staged, refs)
    ELSE Goto(t, [tr EXCEPT
             !.pc = "dep_fetch",
             !.loc = [pending |-> pending, refs |-> refs, man |-> staged]])

\* store.get of the model to deploy.
\* Variant of DeployGet that goes on when the store has no row.
DeployGet_OnAbsentRow(t, n, v, ok) ==
    /\ CanStart(t)
    /\ UNCHANGED <<store, seq>>
    /\ LET row == store[n]
           tr == [Idle EXCEPT !.req = Req("deploy", n, v, TRUE), !.got = StoreGet(n, ok)]
       IN  IF ~ok THEN Finish(t, Failed(tr, "get"), send_error("storage"), <<>>)
           ELSE Goto(t, [tr EXCEPT !.pc = "dep_list", !.cur = row.sm, !.rev = row.rev])

DeployGet(t, n, v, ok) ==
    /\ CanStart(t)
    /\ UNCHANGED <<store, seq>>
    /\ LET row == store[n]
           tr == [Idle EXCEPT !.req = Req("deploy", n, v, TRUE), !.got = StoreGet(n, ok)]
       IN  IF ~ok THEN Finish(t, Failed(tr, "get"), send_error("storage"), <<>>)
           ELSE IF row = Absent
           THEN Finish(t, tr, DeployModelResponse("NotFound", "not_found"), <<>>)
           ELSE Goto(t, [tr EXCEPT !.pc = "dep_list", !.cur = row.sm, !.rev = row.rev])

\* Variant: a version the model does not have is answered like a model that
\* does not exist.
DeployList_NotFound(t, ok) ==
    /\ At(t, "dep_list")
    /\ UNCHANGED <<store, seq>>
    /\ LET tr == task[t]
           staged == StagedModel(tr.cur, tr.req.version)
       IN  IF ~ok THEN Finish(t, Failed(tr, "list"), send_error("storage"), <<>>)
           ELSE IF staged = NoManifest
           THEN Finish(t, tr, DeployModelResponse("NotFound", "no_such_version"), <<>>)
           ELSE DeployLoop(t, tr, DeployedNames(StoreList), staged, <<>>)

\* store.list, then the choice of staged_model and the start of the loop.
DeployList(t, ok) ==
    /\ At(t, "dep_list")
    /\ UNCHANGED <<store, seq>>
    /\ LET tr == task[t]
           staged == StagedModel(tr.cur, tr.req.version)
       IN  IF ~ok THEN Finish(t, Failed(tr, "list"), send_error("storage"), <<>>)
           ELSE IF staged = NoManifest
           THEN Finish(t, tr, DeployModelResponse("Error", "no_such_version"), <<>>)
           ELSE DeployLoop(t, tr, DeployedNames(StoreList), staged, <<>>)

\* One turn of the loop over stored_models: store.get of the next deployed
\* model and the insertion of its provider refs.
DeployFetch(t, ok) ==
    /\ At(t, "dep_fetch")
    /\ UNCHANGED <<store, seq>>
    /\ LET tr == task[t]
           n2 == Head(tr.loc.pending)
           refs == CollectRefs(tr.loc.refs, store[n2].sm, n2, tr.req.name)
       IN  IF ~ok THEN Finish(t, Failed(tr, "get"), send_error("storage"), <<>>)
           ELSE DeployLoop(t, tr, Tail(tr.loc.pending), tr.loc.man, refs)

\* Variant: an aggregate that deploy left as it was read is acknowledged
\* without store.set and without the notification.
DeploySet_SkipUnchanged(t, ok) ==
    /\ At(t, "dep_set")
    /\ LET tr == task[t]
           ack == [DeployModelResponse("Acknowledged", "deployed")
                     EXCEPT !.version = tr.loc.man.version]
       IN  IF tr.cur = tr.got.sm
           THEN /\ UNCHANGED <<store, seq>>
                /\ Finish(t, tr, ack, <<>>)
           ELSE IF SetOk(sm_name(tr.cur), tr.rev, ok)
           THEN /\ StoreSet(sm_name(tr.cur), tr.cur)
                /\ Goto(t, [tr EXCEPT
                        !.pc = "dep_notify", !.cur = EmptySM, !.rev = 0,
                        !.wrote = Row(tr.cur, seq[tr.req.name] + 1), !.resp = ack])
           ELSE /\ UNCHANGED <<store, seq>>
                /\ Goto(t, [Failed(tr, SetFault(sm_name(tr.cur), ok)) EXCEPT
                        !.pc = "dep_notify", !.cur = EmptySM, !.rev = 0,
                        !.resp = DeployModelResponse("Error", "storage")])

\* store.set of the deployed aggregate; the notification follows whatever the
\* outcome.
\* Variant of DeploySet that holds a lattice-wide lock: the write is refused
\* when a model deployed by now conflicts with the manifest being deployed.
DeploySet_LatticeLock(t, ok) ==
    /\ At(t, "dep_set")
    /\ LET tr == task[t]
           refsA == CollectRefs(<<>>, store["A"].sm, "A", tr.req.name)
           refsNow == CollectRefs(refsA, store["B"].sm, "B", tr.req.name)
           free == FirstConflict(tr.loc.man.components, 1, refsNow) = <<>>
       IN  IF SetOk(sm_name(tr.cur), tr.rev, ok) /\ free
           THEN /\ StoreSet(sm_name(tr.cur), tr.cur)
                /\ Goto(t, [tr EXCEPT
                        !.pc = "dep_notify", !.cur = EmptySM, !.rev = 0,
                        !.wrote = Row(tr.cur, seq[tr.req.name] + 1),
                        !.resp = [DeployModelResponse("Acknowledged", "deployed")
                                    EXCEPT !.version = tr.loc.man.version]])
           ELSE /\ UNCHANGED <<store, seq>>
                /\ Goto(t, [Failed(tr, SetFault(sm_name(tr.cur), ok)) EXCEPT
                        !.pc = "dep_notify", !.cur = EmptySM, !.rev = 0,
                        !.resp = DeployModelResponse("Error", "storage")])

DeploySet(t, ok) ==
    /\ At(t, "dep_set")
    /\ LET tr == task[t]
       IN  IF SetOk(sm_name(tr.cur), tr.rev, ok)
           THEN /\ StoreSet(sm_name(tr.cur), tr.cur)
                /\ Goto(t, [tr EXCEPT
                        !.pc = "dep_notify", !.cur = EmptySM, !.rev = 0,
                        !.wrote = Row(tr.cur, seq[tr.req.name] + 1),
                        !.resp = [DeployModelResponse("Acknowledged", "deployed")
                                    EXCEPT !.version = tr.loc.man.version]])
           ELSE /\ UNCHANGED <<store, seq>>
                /\ Goto(t, [Failed(tr, SetFault(sm_name(tr.cur), ok)) EXCEPT
                        !.pc = "dep_notify", !.cur = EmptySM, !.rev = 0,
                        !.resp = DeployModelResponse("Error", "storage")])

\* notifier.deployed and the reply.
\* Variant of DeployNotify that answers as if the publish had worked.
DeployNotify_IgnoreFailure(t, ok) ==
    /\ At(t, "dep_notify")
    /\ UNCHANGED <<store, seq>>
    /\ LET tr == task[t]
       IN  IF ok
           THEN Finish(t, tr, tr.resp, <<Deployed(tr.loc.man)>>)
           ELSE Finish(t, Failed(tr, "publish"), tr.resp, <<>>)

DeployNotify(t, ok) ==
    /\ At(t, "dep_notify")
    /\ UNCHANGED <<store, seq>>
    /\ LET tr == task[t]
       IN  IF ok
           THEN Finish(t, tr, tr.resp, <<Deployed(tr.loc.man)>>)
           ELSE Finish(t, Failed(tr, "publish"),
                       DeployModelResponse("Error", "notify_failed"), <<>>)

\* The client takes the reply published by the latest step.
\* ------------------------------------------------------------- get_model
\* manifest: Option<Manifest> is the reply's detail, empty for None.
GetModelResponse(result, msg, manifest) ==
    [NoReply EXCEPT !.result = result, !.msg = msg,
                    !.detail = IF manifest = NoManifest THEN <<>> ELSE <<manifest>>]

\* Variant of GetReply that falls back to the current version.
GetReply_FallBack(sm, v) ==
    IF v # None /\ get_version(sm, v) # NoManifest
    THEN GetModelResponse("Success", "fetched_version", get_version(sm, v))
    ELSE GetModelResponse("Success", "fetched", get_current(sm))

\* The reply for the aggregate the store returned; req.version is None for an
\* empty payload and for a payload without version.
GetReply(sm, v) ==
    IF v # None
    THEN IF get_version(sm, v) # NoManifest
         THEN GetModelResponse("Success", "fetched_version", get_version(sm, v))
         ELSE GetModelResponse("NotFound", "no_version", NoManifest)
    ELSE GetModelResponse("Success", "fetched", get_current(sm))

\* Variant of GetModel that writes the row it read back to the store.
GetModel_WriteBack(t, n, v, ok) ==
    /\ CanRead(t)
    /\ LET row == store[n]
           tr == [Idle EXCEPT !.req = Req("get", n, v, TRUE), !.got = StoreGet(n, ok)]
       IN  IF ~ok THEN /\ UNCHANGED <<store, seq>>
                       /\ Finish(t, Failed(tr, "get"), send_error("storage"), <<>>)
           ELSE IF row = Absent
           THEN /\ UNCHANGED <<store, seq>>
                /\ Finish(t, tr, GetModelResponse("NotFound", "not_found", NoManifest), <<>>)
           ELSE /\ StoreSet(n, row.sm)
                /\ Finish(t, tr, GetReply(row.sm, v), <<>>)

GetModel(t, n, v, ok) ==
    /\ CanRead(t)
    /\ UNCHANGED <<store, seq>>
    /\ LET row == store[n]
           tr == [Idle EXCEPT !.req = Req("get", n, v, TRUE), !.got = StoreGet(n, ok)]
       IN  IF ~ok THEN Finish(t, Failed(tr, "get"), send_error("storage"), <<>>)
           ELSE IF row = Absent
           THEN Finish(t, tr, GetModelResponse("NotFound", "not_found", NoManifest), <<>>)
           ELSE Finish(t, tr, GetReply(row.sm, v), <<>>)

\* --------------------------------------------------------- list_versions
VersionResponse(result, msg, versions) ==
    [NoReply EXCEPT !.result = result, !.msg = msg, !.detail = versions]

ListVersions(t, n, ok) ==
    /\ CanRead(t)
    /\ UNCHANGED <<store, seq>>
    /\ LET row == store[n]
           tr == [Idle EXCEPT !.req = Req("versions", n, None, TRUE),
                              !.got = StoreGet(n, ok)]
       IN  IF ~ok THEN Finish(t, Failed(tr, "get"), send_error("storage"), <<>>)
           ELSE IF row = Absent
           THEN Finish(t, tr, VersionResponse("NotFound", "not_found", <<>>), <<>>)
           ELSE Finish(t, tr, VersionResponse("Success", "fetched_versions",
                                              list_versions(row.sm)), <<>>)

\* --------------------------------------------------- get_manifest_status
\* B64decoder.decode, then serde_json::from_slice::<StatusInfo>: Some(status)
\* only when the message exists and both decodings succeed; NoStatus is None.
get_manifest_status(raw) ==
    IF raw.present /\ raw.b64 /\ raw.json /\ raw.body.status_type \in StatusTypes
    THEN raw.body
    ELSE NoStatus

\* ----------------------------------------------------------- model_status
\* status: Option<Status> is the reply's detail, empty for None.
StatusResponse(result, msg, status) ==
    [NoReply EXCEPT !.result = result, !.msg = msg, !.detail = status]

\* Status { version: current.version(), info: ..unwrap_or_default(),
\* components: vec![] }
StatusOf_Deployed(sm, raw) ==
    [version |-> sm.deployed_version,
     info |-> IF get_manifest_status(raw) = NoStatus
              THEN DefaultStatus ELSE get_manifest_status(raw),
     components |-> <<>>]

StatusOf(sm, raw) ==
    [version |-> get_current(sm).version,
     info |-> IF get_manifest_status(raw) = NoStatus
              THEN DefaultStatus ELSE get_manifest_status(raw),
     components |-> <<>>]

ModelStatus(t, n, raw, ok) ==
    /\ CanRead(t)
    /\ UNCHANGED <<store, seq>>
    /\ LET row == store[n]
           read == ok /\ row # Absent
           tr == [Idle EXCEPT
                    !.req = [Req("status", n, None, TRUE) EXCEPT
                               !.entries = IF read THEN <<raw>> ELSE <<>>],
                    !.got = StoreGet(n, ok)]
       IN  IF ~ok THEN Finish(t, Failed(tr, "get"), send_error("storage"), <<>>)
           ELSE IF row = Absent
           THEN Finish(t, tr, StatusResponse("NotFound", "not_found", <<>>), <<>>)
           ELSE Finish(t, tr, StatusResponse("Ok", "fetched_status",
                                             <<StatusOf(row.sm, raw)>>), <<>>)

\* ------------------------------------------------------------ list_models
\* One ModelSummary of store.list with the status laid over it; a missing
\* status_message is None.
Summary(ms, raw) ==
    [name |-> ms.name,
     deployed_version |-> ms.deployed_version,
     status |-> IF get_manifest_status(raw) = NoStatus
                THEN "Undeployed" ELSE get_manifest_status(raw).status_type,
     status_message |-> IF get_manifest_status(raw) = NoStatus
                        THEN None ELSE get_manifest_status(raw).message]

ListModels(t, entries, ok) ==
    /\ CanRead(t)
    /\ UNCHANGED <<store, seq>>
    /\ LET tr == [Idle EXCEPT !.req = [Req("list", None, None, TRUE) EXCEPT
                                          !.entries = entries]]
           data == [i \in DOMAIN StoreList |-> Summary(StoreList[i], entries[i])]
       IN  IF ~ok THEN Finish(t, Failed(tr, "list"), send_error("storage"), <<>>)
           ELSE Finish(t, tr, [NoReply EXCEPT !.result = "Listed", !.detail = data], <<>>)

\* ------------------------------------------------- unparseable payloads
\* serde_json::from_reader fails on the payload of a get, delete, deploy or
\* undeploy request: an error reply, and the handler returns.
UNPARSED == "unparsed"
BadPayload(t, verb, n) ==
    /\ CanRead(t)
    /\ UNCHANGED <<store, seq>>
    /\ Finish(t, [Idle EXCEPT !.req = Req(verb, n, UNPARSED, TRUE)],
              send_error("parse"), <<>>)

Deliver ==
    /\ last # NoLast
    /\ last' = NoLast
    /\ prev' = IF /\ last.wrote # NoWrite
                  /\ "publish" \in last.faults
                  /\ Cardinality({u \in Tasks : task[u].pc # "off"}) = 1
               THEN last ELSE NoLast
    /\ UNCHANGED <<store, seq, task, validated, cells, label>>

\* ------------------------------------------------------------------- Next
Next ==
    \/ Deliver
    \/ \E t \in Tasks :
           \/ \E m \in Manifests, valid \in BOOLEAN, ok \in BOOLEAN :
                  PutGet(t, m, "ok", valid, ok)
           \/ \E m \in {d \in PaddedManifests : store[trim(d.name)] # Absent},
                 ok \in BOOLEAN :
                  PutGet(t, m, "ok", TRUE, ok)
           \/ \E pre \in {"parse", "version", "name"} :
                  PutGet(t, CHOOSE m \in Manifests : TRUE, pre, TRUE, TRUE)
           \/ \E ok \in BOOLEAN : PutSet(t, ok)
           \/ \E n \in Names, v \in Versions, ok \in BOOLEAN : DeleteGet(t, n, v, ok)
           \/ \E ok \in BOOLEAN : DeleteSet(t, ok)
           \/ \E ok \in BOOLEAN : DeleteLast(t, ok)
           \/ \E n \in Names, ok \in BOOLEAN : DeleteAll(t, n, ok)
           \/ \E ok \in BOOLEAN : DeleteNotify(t, ok)
           \/ \E n \in Names, v \in Versions \cup {None, LATEST_VERSION}, ok \in BOOLEAN :
                  DeployGet(t, n, v, ok)
           \/ \E ok \in BOOLEAN : DeployList(t, ok)
           \/ \E ok \in BOOLEAN : DeployFetch(t, ok)
           \/ \E ok \in BOOLEAN : DeploySet(t, ok)
           \/ \E ok \in BOOLEAN : DeployNotify(t, ok)
           \/ \E n \in Names, ok \in BOOLEAN : UndeployGet(t, n, ok)
           \/ \E ok \in BOOLEAN : UndeploySet(t, ok)
           \/ \E ok \in BOOLEAN : UndeployNotify(t, ok)
    \/ \E t \in Readers, n \in Names, v \in Versions \cup {None}, ok \in BOOLEAN :
           GetModel(t, n, v, ok)
    \/ \E t \in Readers, n \in Names, ok \in BOOLEAN : ListVersions(t, n, ok)
    \/ \E t \in Readers, n \in Names, ok \in BOOLEAN :
           \E raw \in IF ok /\ store[n] # Absent THEN RawMessages ELSE {NoMessage} :
               ModelStatus(t, n, raw, ok)
    \/ \E t \in Readers, ok \in BOOLEAN :
           \E entries \in [1..(IF ok THEN Len(StoreList) ELSE 0) -> RawMessages] :
               ListModels(t, entries, ok)
    \/ \E t \in Readers, verb \in {"get", "delete", "deploy", "undeploy"}, n \in Names :
           BadPayload(t, verb, n)

Spec == Init /\ [][Next]_vars

\* One request at a time: a single task serves the requests, the others
\* never take one.
InitSeq ==
    /\ store = [n \in Names |-> Absent]
    /\ seq = [n \in Names |-> 0]
    /\ task = [t \in Tasks |-> IF t = CHOOSE u \in Tasks : TRUE
                                THEN Idle ELSE [Idle EXCEPT !.pc = "off"]]
    /\ last = NoLast
    /\ prev = NoLast
    /\ validated = NoValidation
    /\ cells = NoCells
    /\ label = NoLabel
SpecSeq == InitSeq /\ [][Next]_vars

\* validate_manifest on its own: a manifest is given, and the function is
\* called on it, the first call initializing the schema cells.
InitValidate ==
    /\ store = [n \in Names |-> Absent]
    /\ seq = [n \in Names |-> 0]
    /\ task = [t \in Tasks |-> [Idle EXCEPT !.pc = "off"]]
    /\ last = NoLast
    /\ prev = NoLast
    /\ \E m \in ValidatedManifests : validated = [NoValidation EXCEPT !.manifest = m]
    /\ cells = NoCells
    /\ label = NoLabel
Validate ==
    /\ Len(validated.results) < MaxCalls
    /\ validated' = [validated EXCEPT
                        !.results = Append(@, validate_manifest(validated.manifest)),
                        !.initialized = TRUE]
    /\ UNCHANGED <<store, seq, task, last, prev, cells, label>>
NextValidate == Validate
SpecValidate == InitValidate /\ [][NextValidate]_vars

\* valid_oam_label on its own: a label is given and the function is called
\* on it.
InitLabel ==
    /\ store = [n \in Names |-> Absent]
    /\ seq = [n \in Names |-> 0]
    /\ task = [t \in Tasks |-> [Idle EXCEPT !.pc = "off"]]
    /\ last = NoLast
    /\ prev = NoLast
    /\ validated = NoValidation
    /\ cells = NoCells
    /\ \E key \in LabelKeys, value \in LabelValues :
           label = [NoLabel EXCEPT !.key = key, !.value = value]
CheckLabel ==
    /\ Len(label.results) < MaxCalls
    /\ label' = [label EXCEPT
                    !.results = Append(@, valid_oam_label(label.key, label.value))]
    /\ UNCHANGED <<store, seq, task, last, prev, validated, cells>>
NextLabel == CheckLabel
SpecLabel == InitLabel /\ [][NextLabel]_vars

\* validate_manifest called by several tasks at once, up to its two
\* get_or_try_init calls.  The initializers read the schema text compiled
\* into the program, so each of them succeeds always or never.
InitSchema ==
    /\ store = [n \in Names |-> Absent]
    /\ seq = [n \in Names |-> 0]
    /\ task = [t \in Tasks |-> [Idle EXCEPT !.pc = "off"]]
    /\ last = NoLast
    /\ prev = NoLast
    /\ validated = NoValidation
    /\ \E ok \in [Cells -> BOOLEAN] : cells = [NoCells EXCEPT !.ok = ok]
    /\ label = NoLabel

\* The call of get_or_try_init on cell c has returned Ok: the next cell, or
\* the validation itself.
AfterCell(t, c) ==
    IF c = JSON_SCHEMA_VALUE
    THEN [cells EXCEPT !.pc[t] = "get", !.on[t] = OAM_JSON_SCHEMA]
    ELSE [cells EXCEPT !.pc[t] = "validate"]

\* A task enters validate_manifest.
CallValidate(t) ==
    /\ cells.pc[t] = "idle"
    /\ cells.calls[t] < MaxCalls
    /\ cells' = [cells EXCEPT !.pc[t] = "get", !.on[t] = JSON_SCHEMA_VALUE]
    /\ UNCHANGED <<store, seq, task, last, prev, validated, label>>

\* get_or_try_init: a cell that is set is returned at once, else the task
\* asks for the cell's permit.
CellGet(t) ==
    /\ cells.pc[t] = "get"
    /\ cells' = IF cells.id[cells.on[t]] # 0 THEN AfterCell(t, cells.on[t])
                ELSE [cells EXCEPT !.pc[t] = "wait"]
    /\ UNCHANGED <<store, seq, task, last, prev, validated, label>>

\* Variant: a task that waited takes the permit although the cell was set
\* in the meantime.
CellAcquire_Again(t) ==
    /\ cells.pc[t] = "wait"
    /\ cells.holder[cells.on[t]] = None
    /\ cells' = [cells EXCEPT !.pc[t] = "init", !.holder[cells.on[t]] = t]
    /\ UNCHANGED <<store, seq, task, last, prev, validated, label>>

\* The wait for the permit ends: the cell was set meanwhile, which closes
\* the semaphore, and its value is returned; or the permit is free and the
\* task takes it.
CellAcquire(t) ==
    /\ cells.pc[t] = "wait"
    /\ cells.id[cells.on[t]] # 0 \/ cells.holder[cells.on[t]] = None
    /\ cells' = IF cells.id[cells.on[t]] # 0 THEN AfterCell(t, cells.on[t])
                ELSE [cells EXCEPT !.pc[t] = "init", !.holder[cells.on[t]] = t]
    /\ UNCHANGED <<store, seq, task, last, prev, validated, label>>

\* The holder of the permit runs the initializer: Ok sets the cell for good,
\* Err gives the permit back and validate_manifest returns the error.
CellInit(t) ==
    /\ cells.pc[t] = "init"
    /\ LET c == cells.on[t]
           set == [cells EXCEPT !.id[c] = cells.made[c] + 1, !.made[c] = @ + 1,
                                !.holder[c] = None]
       IN  cells' = IF cells.ok[c]
                    THEN [AfterCell(t, c) EXCEPT !.id = set.id, !.made = set.made,
                                                 !.holder = set.holder]
                    ELSE [cells EXCEPT !.holder[c] = None, !.pc[t] = "idle",
                                       !.calls[t] = @ + 1, !.used[t] = 0]
    /\ UNCHANGED <<store, seq, task, last, prev, validated, label>>

\* ok_schema.validate(..) and the rest of validate_manifest, against the
\* instance the cell returned.
SchemaValidate(t) ==
    /\ cells.pc[t] = "validate"
    /\ cells' = [cells EXCEPT !.pc[t] = "idle", !.calls[t] = @ + 1,
                              !.used[t] = cells.id[OAM_JSON_SCHEMA]]
    /\ UNCHANGED <<store, seq, task, last, prev, validated, label>>

NextSchema ==
    \E t \in Tasks :
        \/ CallValidate(t)
        \/ CellGet(t)
        \/ CellAcquire(t)
        \/ CellInit(t)
        \/ SchemaValidate(t)
SpecSchema == InitSchema /\ [][NextSchema]_vars

\* ============================================================== Properties
\* What the request that just finished read, wrote and was answered.
GotRow == last.got.rev >= 0
Wrote == last.wrote # NoWrite
HasVersions(sm, vs) == {sm.manifests[i].version : i \in DOMAIN sm.manifests} = vs

\* C1: in every stored row, a deployed version is one of the row's versions.
C1_DeployedVersionStored ==
    \A n \in Names :
        deployed_version(store[n].sm) # None
            => has_version(store[n].sm, deployed_version(store[n].sm))

\* A delete of a version has just rewritten a row whose deployed version stays.
C1_Witness ==
    /\ last.req.verb = "delete"
    /\ Wrote /\ last.wrote # Absent
    /\ deployed_version(store[last.req.name].sm) # None
    /\ deployed_version(last.got.sm) # None

\* C2: the versions of a stored row are pairwise distinct.
C2_VersionsDistinct ==
    \A n \in Names :
        \A i, j \in DOMAIN store[n].sm.manifests :
            store[n].sm.manifests[i].version = store[n].sm.manifests[j].version => i = j

\* A put of a version the row already has was just refused, the row holding
\* two versions.
C2_Witness ==
    /\ last.req.verb = "put"
    /\ last.reply.msg = "exists"
    /\ count(store[last.req.name].sm) = 2

\* C3: every change of a row by a request that read the row is made at the
\* revision the request read, so no request undoes a write it has not seen.
WritePoints == {"put_set", "del_set", "del_last", "dep_set", "und_set"}
C3_WritesAtRevisionRead ==
    [][\A t \in Tasks :
          (task[t].pc \in WritePoints /\ task'[t] # task[t] /\ store' # store)
              => store[task[t].req.name].rev = task[t].rev]_vars

\* C4: a deployed notification is published only by a deploy request whose
\* store.set succeeded, and names the version that write persisted as deployed.
C4_DeployedOnlyAfterSet ==
    \A i \in DOMAIN last.notes :
        last.notes[i].kind = "deployed"
            => /\ Wrote
               /\ deployed_version(last.wrote.sm) = last.notes[i].version

\* Manifests m and d have Capabilities of one repository with two versions.
RefsDiffer(m, d) ==
    \E i \in DOMAIN m.components, j \in DOMAIN d.components :
        LET c == m.components[i]
            e == d.components[j]
        IN  /\ c.kind = "Capability" /\ e.kind = "Capability"
            /\ parse_image_ref(c.image) # <<>> /\ parse_image_ref(e.image) # <<>>
            /\ parse_image_ref(c.image)[1] = parse_image_ref(e.image)[1]
            /\ parse_image_ref(c.image)[2] # parse_image_ref(e.image)[2]

\* Another deployed model n has a Capability with the repository of a
\* Capability of manifest m but another version.
CapabilityConflict(m, n) ==
    /\ n # m.name
    /\ get_deployed(store[n].sm) # NoManifest
    /\ RefsDiffer(m, get_deployed(store[n].sm))

\* C5: with one request at a time, a deploy whose staged version conflicts
\* with a Capability of another deployed model is answered Error (naming a
\* conflicting model unless a store call failed), writes nothing, publishes
\* nothing and leaves the row as it was read.
C5_ConflictRejected ==
    LET staged == StagedModel(last.got.sm, last.req.version)
    IN  (/\ last.req.verb = "deploy"
         /\ GotRow /\ last.got # Absent
         /\ staged # NoManifest
         /\ \E n \in Names : CapabilityConflict(staged, n))
            => /\ last.reply.result = "Error"
               /\ last.reply.msg = "conflict"
                      => CapabilityConflict(staged, last.reply.detail[2])
               /\ ~Wrote
               /\ last.notes = <<>>
               /\ store[last.req.name] = last.got

\* The request that just finished was a delete_model naming a version.
DeleteOf == last.req.verb = "delete" /\ last.req.version # None
NotifyFailed == last.reply.result = "Error" /\ last.reply.msg = "notify_failed"
\* The reply rp went out after exactly one undeployed notification for the
\* name, or the publish failed and the reply is the Error that says so.
RepliedAfterUndeployed(result, undeployFlag) ==
    \/ /\ last.reply.result = result
       /\ last.reply.undeploy = undeployFlag
       /\ last.notes = <<Undeployed(last.req.name)>>
    \/ /\ NotifyFailed
       /\ last.notes = <<>>

Destroyed ==
    /\ last.req.verb = "delete"
    /\ last.wrote = Absent
    /\ \/ last.req.version = None
       \/ GotRow /\ HasVersions(last.got.sm, {last.req.version})

\* C7: a delete_model that destroyed the aggregate leaves no row under the
\* name and replies Deleted with undeploy = true after exactly one undeployed
\* notification for the name (Error, and nothing published, if the publish
\* failed).
C7_DeleteModel ==
    Destroyed
        => /\ store[last.req.name] = Absent
           /\ RepliedAfterUndeployed("Deleted", TRUE)

\* The only version of a model was deleted and the notification published.
C7_Witness ==
    /\ Destroyed
    /\ last.req.version # None
    /\ last.reply.result = "Deleted"
    /\ last.notes = <<Undeployed(last.req.name)>>

PutOfStored ==
    /\ last.req.verb = "put"
    /\ GotRow
    /\ has_version(last.got.sm, last.req.version)

\* C9 as stated: a put_model of a manifest whose (name, version) is already
\* stored is answered with the "already exists" error and writes nothing.
C9_RePutSaysExists ==
    PutOfStored
        => /\ last.reply = send_error("exists")
           /\ ~Wrote
           /\ store[last.req.name] = last.got

\* C9: a put_model of a manifest whose (name, version) is already stored is
\* answered with an error and writes nothing, the row keeping its versions,
\* deployed_version and revision: the error is "already exists" when the
\* manifest passes validation, and the validation error when it does not.
C9_RePutRejected ==
    PutOfStored
        => /\ last.reply =
                 send_error(IF last.req.valid THEN "exists" ELSE "validation")
           /\ ~Wrote
           /\ store[last.req.name] = last.got

\* A version already stored was put again on a row that has a deployed
\* version, and refused.
C9_Witness ==
    /\ PutOfStored
    /\ last.req.valid
    /\ last.reply.msg = "exists"
    /\ deployed_version(store[last.req.name].sm) # None

\* C10: a put_model that replied success replied Created iff the row it read
\* had no version, NewVersion otherwise; current_version is the version put,
\* which is the last of the row stored, and total_versions is the number of
\* versions of the row stored.
C10_PutReply ==
    (last.req.verb = "put" /\ last.reply.result \in {"Created", "NewVersion"})
        => /\ GotRow /\ Wrote
           /\ last.reply.result = "Created" <=> is_empty(last.got.sm)
           /\ last.reply.result = "NewVersion" <=> count(last.got.sm) > 0
           /\ last.reply.version = last.req.version
           /\ get_current(last.wrote.sm).version = last.req.version
           /\ last.reply.total = count(last.wrote.sm)
           /\ store[last.req.name] = last.wrote

\* A second version was put and NewVersion replied with two versions in all.
C10_Witness ==
    /\ last.req.verb = "put"
    /\ last.reply.result = "NewVersion"
    /\ last.reply.total = 2
    /\ count(store[last.req.name].sm) = 2

\* C11: an undeploy_model that replied Acknowledged published exactly one
\* undeployed notification and leaves the row without deployed version.  If
\* the row read had a deployed version, the row stored is the row read with
\* the pointer cleared; if it had none, the reply says "already undeployed"
\* and nothing was written, the row being as read.
C11_Undeploy ==
    (last.req.verb = "undeploy" /\ last.reply.result = "Acknowledged")
        => /\ GotRow /\ last.got # Absent
           /\ last.notes = <<Undeployed(last.req.name)>>
           /\ deployed_version(store[last.req.name].sm) = None
           /\ IF deployed_version(last.got.sm) # None
              THEN /\ last.reply.msg = "undeployed"
                   /\ Wrote
                   /\ last.wrote.sm = [last.got.sm EXCEPT !.deployed_version = None]
                   /\ store[last.req.name] = last.wrote
              ELSE /\ last.reply.msg = "already_undeployed"
                   /\ ~Wrote
                   /\ store[last.req.name] = last.got

\* An undeploy of a model with no deployed version was acknowledged and the
\* notification published again.
C11_Witness ==
    /\ last.req.verb = "undeploy"
    /\ last.reply = DeployModelResponse("Acknowledged", "already_undeployed")
    /\ last.got # Absent /\ ~Wrote
    /\ last.notes = <<Undeployed(last.req.name)>>

\* The version a deploy request aims at in the aggregate sm.
DeployTarget(sm, v) ==
    IF v = None \/ v = LATEST_VERSION THEN get_current(sm).version ELSE v
\* The request that just finished was a deploy_model that read a row.
DeployOfRow == last.req.verb = "deploy" /\ GotRow /\ last.got # Absent
\* A store call or the publish of the finished request failed.
Faulted == last.reply.result = "Error" /\ last.reply.msg \in {"storage", "notify_failed"}

\* C12: a deploy_model aiming at the version the row read has deployed
\* stores, if it writes, the row as it was read (same versions, same
\* pointer); and when no other deployed model conflicts with that version
\* and no store call or publish fails, it does write, replies Acknowledged
\* with that version and publishes the deployed notification for it again.
C12_Redeploy ==
    (/\ DeployOfRow
     /\ DeployTarget(last.got.sm, last.req.version) = deployed_version(last.got.sm))
        => /\ Wrote => (last.wrote.sm = last.got.sm /\ store[last.req.name] = last.wrote)
           /\ (~Faulted /\ ~\E n \in Names : CapabilityConflict(get_deployed(last.got.sm), n))
                  => /\ Wrote
                     /\ last.reply.result = "Acknowledged"
                     /\ last.reply.version = deployed_version(last.got.sm)
                     /\ last.notes = <<Deployed(get_deployed(last.got.sm))>>

\* The deployed version was deployed again, acknowledged and notified.
C12_Witness ==
    /\ DeployOfRow
    /\ last.req.version = deployed_version(last.got.sm)
    /\ last.reply.result = "Acknowledged"
    /\ Wrote /\ last.wrote.sm = last.got.sm
    /\ last.notes = <<Deployed(get_deployed(last.got.sm))>>

\* C13: a deploy_model naming a version the row read does not have replies
\* Error, writes nothing and publishes nothing.
C13_DeployAbsentVersion ==
    (/\ DeployOfRow
     /\ last.req.version \notin {None, LATEST_VERSION}
     /\ ~has_version(last.got.sm, last.req.version))
        => /\ last.reply.result = "Error"
           /\ last.reply.msg \in {"no_such_version", "storage"}
           /\ ~Wrote
           /\ last.notes = <<>>

\* A version the model does not have was named for a model that has a
\* deployed version, and refused.
C13_Witness ==
    /\ DeployOfRow
    /\ last.req.version \in Versions
    /\ ~has_version(last.got.sm, last.req.version)
    /\ deployed_version(last.got.sm) # None
    /\ last.reply = DeployModelResponse("Error", "no_such_version")

\* The images of the Capabilities of manifest m.
CapabilityImages(m) ==
    {m.components[i].image : i \in {j \in DOMAIN m.components :
                                        m.components[j].kind = "Capability"}}

\* C14: a deploy_model with no version or with "latest" aims at the last
\* manifest of the row read: what it writes is that row with deployed_version
\* set to that manifest's version; an Acknowledged reply and the deployed
\* notification carry that version; a conflict reply is about an image of that
\* manifest; and it is acknowledged when no store call or publish fails and no
\* other deployed model conflicts with that manifest.
C14_DeployLatest ==
    (DeployOfRow /\ last.req.version \in {None, LATEST_VERSION})
        => LET cur == get_current(last.got.sm)
           IN  /\ Wrote => /\ last.wrote.sm =
                                 [last.got.sm EXCEPT !.deployed_version = cur.version]
                           /\ store[last.req.name] = last.wrote
               /\ last.notes # <<>> => last.notes = <<Deployed(cur)>>
               /\ last.reply.result = "Acknowledged"
                      => /\ Wrote
                         /\ last.reply.version = cur.version
                         /\ last.notes = <<Deployed(cur)>>
               /\ last.reply.msg = "conflict"
                      => /\ last.reply.detail[1] \in CapabilityImages(cur)
                         /\ CapabilityConflict(cur, last.reply.detail[2])
               /\ (~Faulted /\ ~\E n \in Names : CapabilityConflict(cur, n))
                      => last.reply.result = "Acknowledged"

\* "latest" was deployed on a row of two versions, the first of them deployed
\* before, and the second acknowledged.
C14_Witness ==
    /\ DeployOfRow
    /\ last.req.version = LATEST_VERSION
    /\ count(last.got.sm) = 2
    /\ deployed_version(last.got.sm) = last.got.sm.manifests[1].version
    /\ last.reply.result = "Acknowledged"
    /\ deployed_version(store[last.req.name].sm) = last.got.sm.manifests[2].version

\* C15: a deploy_model whose staged version conflicts with no other deployed
\* model is not rejected by the provider check, whatever the Capabilities of
\* the model's own versions: it is acknowledged unless a store call or the
\* publish fails; and a conflict reply never names the model being deployed.
C15_NoFalseConflict ==
    LET staged == StagedModel(last.got.sm, last.req.version)
    IN  (DeployOfRow /\ staged # NoManifest)
            => /\ last.reply.msg = "conflict" => last.reply.detail[2] # last.req.name
               /\ (~\E n \in Names : CapabilityConflict(staged, n))
                      => /\ last.reply.msg # "conflict"
                         /\ ~Faulted => last.reply.result = "Acknowledged"

\* A version whose provider version differs from the one of the model's
\* deployed version was deployed and acknowledged.
C15_Witness ==
    /\ DeployOfRow
    /\ last.req.version \in Versions
    /\ get_deployed(last.got.sm) # NoManifest
    /\ RefsDiffer(get_version(last.got.sm, last.req.version), get_deployed(last.got.sm))
    /\ last.reply.result = "Acknowledged"

\* C16: when the notifier publish of a deploy, undeploy or delete request
\* fails, the reply is an Error (not Acknowledged, Deleted or Noop), nothing
\* was notified, and the write the request made before is still the stored row.
PublishFailed == "publish" \in last.faults
C16_PublishFailureKeepsWrite ==
    PublishFailed =>
        /\ last.req.verb \in {"deploy", "undeploy", "delete"}
        /\ last.reply.result = "Error"
        /\ last.notes = <<>>
        /\ Wrote => store[last.req.name] = last.wrote
C16_Witness ==
    /\ PublishFailed
    /\ last.req.verb = "deploy"
    /\ Wrote
    /\ deployed_version(store[last.req.name].sm) # None
    /\ last.reply.result = "Error"

\* C17: a deploy, undeploy or delete request wrote the store and its
\* notification failed; the same request issued again with nothing in between,
\* no call failing this time, publishes the deployed notification of the
\* persisted version (deploy) or the undeployed notification of the name
\* (undeploy, delete), gets a reply that is not Error, and leaves the versions
\* and the deployed pointer as the first request persisted them.
RetryOfFailedNotify == prev # NoLast /\ last # NoLast /\ last.req = prev.req
OwedNotification ==
    IF prev.req.verb = "deploy"
    THEN Deployed(get_deployed(prev.wrote.sm))
    ELSE Undeployed(prev.req.name)
C17_RetryNotifies ==
    RetryOfFailedNotify /\ last.faults = {} =>
        /\ last.reply.result # "Error"
        /\ last.notes = <<OwedNotification>>
        /\ store[last.req.name].sm = prev.wrote.sm
C17_Witness ==
    /\ RetryOfFailedNotify
    /\ last.faults = {}
    /\ last.req.verb = "undeploy"
    /\ last.reply.result = "Acknowledged"
    /\ last.notes = <<Undeployed(last.req.name)>>
    /\ ~Wrote
C17_WitnessDeploy ==
    /\ RetryOfFailedNotify
    /\ last.faults = {}
    /\ last.req.verb = "deploy"
    /\ last.reply.result = "Acknowledged"
C17_WitnessDelete ==
    /\ RetryOfFailedNotify
    /\ last.faults = {}
    /\ last.req.verb = "delete"
    /\ last.reply.result = "Noop"

\* C18: a request one of whose store calls (get, set, list or delete) failed is
\* answered with result Error and message "Internal storage error" (the
\* notify-failure message when its publish failed as well), never with a
\* success result.
StoreFaults == {"get", "list", "set", "conflict", "delete"}
StoreCallFailed == last.faults \cap StoreFaults # {}
SuccessResults == {"Created", "NewVersion", "Deleted", "Acknowledged", "Success", "Ok"}
C18_StoreFailureIsError ==
    StoreCallFailed =>
        /\ last.reply.result = "Error"
        /\ last.reply.result \notin SuccessResults
        /\ last.reply.msg = "storage" \/ PublishFailed

\* C19: a request attempts at most one store write (after a write, or a write
\* that failed, no later step of the request changes the store); the step in
\* which its conditional write meets a revision conflict leaves the store as
\* the concurrent winner wrote it; and the request is answered Error, having
\* written nothing, while the stored row is no longer the one it read.
WriteAttempted(tr) == tr.wrote # NoWrite \/ tr.faults \cap {"set", "conflict", "delete"} # {}
FaultsAfter(t) == IF task'[t].pc = "idle" THEN last'.faults ELSE task'[t].faults
LostConflict == last # NoLast /\ "conflict" \in last.faults
C19_NoRetryAfterConflict ==
    [][\A t \in Tasks :
          task'[t] # task[t] =>
              /\ WriteAttempted(task[t]) => store' = store
              /\ "conflict" \in FaultsAfter(t) => store' = store
              /\ LostConflict' =>
                     /\ last'.reply.result = "Error"
                     /\ last'.wrote = NoWrite
                     /\ store'[last'.req.name] # last'.got]_vars
C19_Witness ==
    /\ LostConflict
    /\ last.req.verb \in {"put", "undeploy"}
    /\ last.reply.result = "Error"
    /\ store[last.req.name].rev > last.got.rev

\* C20: no cross-key lock guards the write of a deploy: a deploy_model request
\* that passed its provider check writes and is Acknowledged whenever its own
\* row still has the revision it read and store.set does not fail, whatever
\* was written to the other models since it listed them.  So two deploys of
\* distinct models whose versions carry the same provider repository with
\* different versions, both listing before either writes, are both
\* Acknowledged and both models end up deployed.
C20_DeployWriteOwnKeyOnly ==
    [][\A t \in Tasks :
          LET tr == task[t]
          IN  /\ tr.pc = "dep_set"
              /\ task'[t] # tr
              /\ store[tr.req.name].rev = tr.rev
              /\ "set" \notin task'[t].faults
              => /\ store'[tr.req.name].sm = tr.cur
                 /\ task'[t].resp.result = "Acknowledged"
                 /\ task'[t].faults = tr.faults]_vars
BothDeployedInConflict ==
    /\ deployed_version(store["A"].sm) = "v1"
    /\ deployed_version(store["B"].sm) = "v1"
    /\ CapabilityConflict(get_deployed(store["A"].sm), "B")
C20_Witness ==
    /\ BothDeployedInConflict
    /\ last # NoLast
    /\ last.req.verb = "deploy"
    /\ last.faults = {}
    /\ Wrote
    /\ last.reply.result = "Acknowledged"
    /\ last.notes = <<Deployed(get_deployed(last.wrote.sm))>>

\* C29: with one request at a time, no two distinct deployed models have
\* Capability components with the same image repository and different versions.
C29_NoDeployedConflict ==
    \A n \in Names :
        get_deployed(store[n].sm) # NoManifest
            => \A o \in Names : ~CapabilityConflict(get_deployed(store[n].sm), o)

\* C30: every row present in the store holds at least one version, so the
\* aggregate deploy_model took from the store and hands to get_current is
\* never empty.
C30_NoEmptyRow ==
    /\ \A n \in Names : is_empty(store[n].sm) => store[n] = Absent
    /\ \A t \in Tasks : task[t].pc = "dep_list" => ~is_empty(task[t].cur)
C30_Witness ==
    /\ last.req.verb = "delete"
    /\ last.req.version # None
    /\ GotRow /\ count(last.got.sm) = 1
    /\ last.wrote = Absent
    /\ store[last.req.name] = Absent
    /\ seq[last.req.name] > 1

\* C21: a put_model request whose payload does not parse, whose version or
\* name is invalid or whose manifest fails validate_manifest, and a get,
\* delete, deploy or undeploy request whose payload does not parse, is
\* answered with an error reply, writes nothing to the store, publishes no
\* notification and leaves the row as it was.
RejectedRequest ==
    \/ last.req.verb = "put" /\ (last.req.name = None \/ ~last.req.valid)
    \/ last.req.version = UNPARSED
C21_RejectedChangesNothing ==
    RejectedRequest =>
        /\ last.reply.result = "Error"
        /\ last.wrote = NoWrite
        /\ last.notes = <<>>
        /\ GotRow => store[last.req.name] = last.got
        /\ last.req.version = UNPARSED => last.reply.msg = "parse" /\ last.got = NoGet
C21_Witness ==
    /\ last.req.verb = "put"
    /\ ~last.req.valid
    /\ GotRow
    /\ last.got # Absent
    /\ last.reply = send_error("validation")
    /\ store[last.req.name] = last.got
C21_WitnessUnparsed ==
    /\ last.req.verb = "deploy"
    /\ last.req.version = UNPARSED
    /\ store[last.req.name] # Absent
    /\ last.reply = send_error("parse")

\* C22: get_model, list_versions, deploy_model, undeploy_model and
\* model_status on a name whose row the store does not have reply NotFound,
\* write nothing and publish nothing; get_model with a version the stored
\* model does not have replies NotFound as well.
RowMissing ==
    /\ last.req.verb \in {"get", "versions", "deploy", "undeploy", "status"}
    /\ last.got = Absent
VersionMissing ==
    /\ last.req.verb = "get"
    /\ GotRow /\ last.got # Absent
    /\ last.req.version # None
    /\ ~has_version(last.got.sm, last.req.version)
C22_NotFound ==
    RowMissing \/ VersionMissing =>
        /\ last.reply.result = "NotFound"
        /\ last.reply.detail = <<>>
        /\ last.wrote = NoWrite
        /\ last.notes = <<>>
        /\ store[last.req.name] = last.got
C22_Witness ==
    /\ VersionMissing
    /\ count(last.got.sm) > 0
    /\ last.reply.result = "NotFound"
C22_WitnessRow ==
    /\ RowMissing
    /\ last.req.verb = "status"
    /\ seq[last.req.name] > 0
    /\ last.reply.result = "NotFound"

\* The requests that act in a step: the one answered, or the one whose task
\* moved on.
ActingRequests ==
    IF last' # NoLast THEN {last'.req}
    ELSE {task'[t].req : t \in {u \in Tasks : task'[u] # task[u]}}
PutManifest(req) ==
    [name |-> req.name, version |-> req.version,
     components |-> Components(req.name, req.version)]
LastStored(sm) == sm.manifests[Len(sm.manifests)]

\* C23: a put_model that wrote leaves its manifest m stored under m's version
\* and as the last version of the row; a stored version stays as it is until a
\* delete request for that version, or for the whole model, removes it; and
\* get_model of a stored row replies Success with the stored manifest of the
\* version asked for, or, asked for no version, with the last version stored.
C23_PutThenGet ==
    [][/\ \A n \in Names, v \in Versions :
              has_version(store[n].sm, v) =>
                  \/ get_version(store'[n].sm, v) = get_version(store[n].sm, v)
                  \/ /\ ~has_version(store'[n].sm, v)
                     /\ \E r \in ActingRequests :
                            /\ r.verb = "delete" /\ r.name = n
                            /\ r.version \in {v, None}
       /\ last'.req.verb = "put" /\ last'.wrote # NoWrite =>
              /\ last'.reply.result \in {"Created", "NewVersion"}
              /\ get_version(store'[last'.req.name].sm, last'.req.version)
                     = PutManifest(last'.req)
              /\ LastStored(store'[last'.req.name].sm) = PutManifest(last'.req)
       /\ /\ last'.req.verb = "get" /\ last'.faults = {}
          /\ last'.req.version # UNPARSED
          /\ store'[last'.req.name] # Absent
          /\ has_version(store'[last'.req.name].sm, last'.req.version)
                 \/ last'.req.version = None
          => /\ last'.reply.result = "Success"
             /\ last'.reply.detail =
                    IF last'.req.version = None
                    THEN <<LastStored(store'[last'.req.name].sm)>>
                    ELSE <<get_version(store'[last'.req.name].sm, last'.req.version)>>]_vars

\* C24: once delete_model has replied Deleted for a version, the row does not
\* hold that version, whether the row remains or is gone; a version comes
\* into a row only by a put_model of that version; and get_model for a version
\* the store does not hold replies NotFound.
VersionsAppearByPut ==
    \A n \in Names, v \in Versions :
        ~has_version(store[n].sm, v) /\ has_version(store'[n].sm, v) =>
            \E r \in ActingRequests : r.verb = "put" /\ r.name = n /\ r.version = v
GetOfMissingVersion ==
    /\ last.req.verb = "get" /\ last.faults = {}
    /\ last.req.version \in Versions
    /\ ~has_version(store[last.req.name].sm, last.req.version)
    => last.reply.result = "NotFound" /\ last.reply.detail = <<>>
DeletedVersionGone ==
    /\ last.req.verb = "delete"
    /\ last.req.version \in Versions
    /\ last.reply.result = "Deleted"
    => ~has_version(store[last.req.name].sm, last.req.version)
C24_DeleteThenGet ==
    [][VersionsAppearByPut /\ GetOfMissingVersion' /\ DeletedVersionGone']_vars

\* C25: the versions of a row are kept in the order in which their puts
\* succeeded: a step either leaves the row's version list as it is, or
\* appends the version of the put_model that writes, or removes versions
\* without reordering the rest; and list_versions replies with that list,
\* flagging as deployed the entry whose version is deployed_version and no
\* other, at most one.
StoredVersions(sm) == [i \in DOMAIN sm.manifests |-> sm.manifests[i].version]
Range(f) == {f[i] : i \in DOMAIN f}
Thinned(shorter, longer) ==
    shorter = SelectSeq(longer, LAMBDA v : v \in Range(shorter))
PutOrderKept ==
    \A n \in Names :
        LET old == StoredVersions(store[n].sm)
            new == StoredVersions(store'[n].sm)
        IN  \/ store'[n] = store[n]
            \/ Thinned(new, old)
            \/ \E r \in ActingRequests :
                   /\ r.verb = "put" /\ r.name = n
                   /\ r.version \notin Range(old)
                   /\ new = Append(old, r.version)
VersionsListed ==
    /\ last.req.verb = "versions" /\ last.faults = {}
    /\ store[last.req.name] # Absent
    => LET sm == store[last.req.name].sm
           listed == last.reply.detail
       IN  /\ last.reply.result = "Success"
           /\ [i \in DOMAIN listed |-> listed[i].version] = StoredVersions(sm)
           /\ \A i \in DOMAIN listed :
                  listed[i].deployed <=> listed[i].version = sm.deployed_version
           /\ Cardinality({i \in DOMAIN listed : listed[i].deployed}) <= 1
C25_VersionsInPutOrder ==
    [][PutOrderKept /\ VersionsListed']_vars
C25_Witness ==
    /\ last.req.verb = "versions"
    /\ last.reply.result = "Success"
    /\ last.reply.detail = <<[version |-> "v2", deployed |-> TRUE],
                             [version |-> "v1", deployed |-> FALSE]>>

\* C27: model_status of a stored model replies Ok with the version of the
\* last-inserted manifest, no components, and the last entry of the status
\* log as info; an absent or undecodable entry reads as Undeployed, and
\* list_models reports such a model as Undeployed with no status message.
Decodes(raw) == raw.present /\ raw.b64 /\ raw.json
StatusReplied ==
    /\ last.req.verb = "status" /\ last.faults = {}
    /\ store[last.req.name] # Absent
    => /\ last.reply.result = "Ok"
       /\ Len(last.reply.detail) = 1
       /\ LET status == last.reply.detail[1]
              raw == last.req.entries[1]
          IN  /\ status.version = LastStored(store[last.req.name].sm).version
              /\ status.components = <<>>
              /\ status.info = IF Decodes(raw) THEN raw.body
                               ELSE StatusInfo("Undeployed", "")
SummariesListed ==
    /\ last.req.verb = "list" /\ last.faults = {}
    => /\ Len(last.reply.detail) = Len(last.req.entries)
       /\ \A i \in DOMAIN last.reply.detail :
              LET raw == last.req.entries[i]
                  summary == last.reply.detail[i]
              IN  IF Decodes(raw)
                  THEN /\ summary.status = raw.body.status_type
                       /\ summary.status_message = raw.body.message
                  ELSE /\ summary.status = "Undeployed"
                       /\ summary.status_message = None
C27_StatusOfExisting == StatusReplied /\ SummariesListed
C27_Witness ==
    /\ last.req.verb = "status" /\ last.reply.result = "Ok"
    /\ store[last.req.name].sm.deployed_version = "v1"
    /\ last.reply.detail[1].version = "v2"
    /\ last.req.entries[1].present /\ ~Decodes(last.req.entries[1])
    /\ last.reply.detail[1].info.status_type = "Undeployed"
C27_WitnessList ==
    /\ last.req.verb = "list" /\ last.reply.result = "Listed"
    /\ \E i \in DOMAIN last.reply.detail :
           /\ ~Decodes(last.req.entries[i])
           /\ last.reply.detail[i].deployed_version # None
           /\ last.reply.detail[i].status = "Undeployed"

\* C26: in every stored row all versions carry the same metadata.name, and
\* that name is the name the row is stored under, also after a put_model
\* whose name came with whitespace around it.
C26_NameIsKey ==
    \A n \in Names :
        \A i \in DOMAIN store[n].sm.manifests :
            /\ store[n].sm.manifests[i].name = store[n].sm.manifests[1].name
            /\ store[n].sm.manifests[i].name = n

\* C28: for a manifest that passes the schema and the label checks,
\* validate_manifest succeeds exactly when the component names are pairwise
\* distinct, the supplied ids are pairwise distinct, no component has two
\* Link traits with the same target, and every Link target is the name of a
\* component; and a second validation of the manifest answers as the first.
LinkTargets(component) ==
    {component.traits[j].target :
        j \in {k \in DOMAIN component.traits : component.traits[k].kind = "Link"}}
WellFormed(manifest) ==
    LET cs == manifest.components
    IN  /\ \A i, j \in DOMAIN cs : i # j => cs[i].name # cs[j].name
        /\ \A i, j \in DOMAIN cs :
               i # j /\ cs[i].id # None => cs[i].id # cs[j].id
        /\ \A i \in DOMAIN cs : \A j, k \in DOMAIN cs[i].traits :
               /\ j # k
               /\ cs[i].traits[j].kind = "Link"
               /\ cs[i].traits[k].kind = "Link"
               => cs[i].traits[j].target # cs[i].traits[k].target
        /\ \A i \in DOMAIN cs :
               LinkTargets(cs[i]) \subseteq {cs[j].name : j \in DOMAIN cs}
C28_ValidateIffWellFormed ==
    /\ validated.manifest.schema /\ validated.manifest.labels
       => \A c \in DOMAIN validated.results :
              validated.results[c] = None <=> WellFormed(validated.manifest)
    /\ \A c, d \in DOMAIN validated.results :
           validated.results[c] = validated.results[d]
C28_Witness ==
    /\ Len(validated.results) = 2
    /\ validated.results[2] = None
    /\ Len(validated.manifest.components) = 2
    /\ \E i \in DOMAIN validated.manifest.components :
           LinkTargets(validated.manifest.components[i]) # {}
C28_WitnessRejected ==
    /\ Len(validated.results) = 2
    /\ validated.results[2] = "duplicate_id"
    /\ validated.manifest.components[1].kind # validated.manifest.components[2].kind

\* C31: a put_model that writes leaves deployed_version as the row it read
\* had it, unset for a model it creates, and the version it put is the
\* current one of the row written.
PutWrote == last.req.verb = "put" /\ last.wrote # NoWrite
C31_PutKeepsDeployed ==
    PutWrote =>
        /\ store[last.req.name] = last.wrote
        /\ last.wrote.sm.deployed_version = last.got.sm.deployed_version
        /\ last.got = Absent => last.wrote.sm.deployed_version = None
        /\ LastStored(last.wrote.sm).version = last.req.version
C31_Witness ==
    /\ PutWrote
    /\ last.req.version = "v2"
    /\ last.wrote.sm.deployed_version = "v1"
    /\ last.reply.result = "NewVersion"
C31_WitnessCreated ==
    /\ PutWrote
    /\ last.reply.result = "Created"
    /\ last.wrote.sm.deployed_version = None

\* C33: a step that ends a get_model, list_models, list_versions or
\* model_status request leaves every row and every revision of the store as
\* they were, and the request has written nothing and published no
\* notification; a put_model request publishes no notification either.
ReadVerbs == {"get", "list", "versions", "status"}
C33_ReadsChangeNothing ==
    [][/\ last'.req.verb \in ReadVerbs =>
              /\ store' = store /\ seq' = seq
              /\ last'.wrote = NoWrite
              /\ last'.notes = <<>>
       /\ last'.req.verb = "put" => last'.notes = <<>>]_vars
C33_Witness ==
    /\ last.req.verb = "status" /\ last.reply.result = "Ok"
    /\ store[last.req.name].sm.deployed_version # None
    /\ seq[last.req.name] = store[last.req.name].rev

\* C32: every finished request has had send_reply called once with the
\* reply the handler built: a message with a reply subject gets exactly that
\* one reply published, a message without one gets none, and the handler
\* built a reply, wrote and notified all the same.
Finished == last # NoLast
HandlerResults ==
    {"Created", "NewVersion", "Success", "Listed", "Ok", "Deleted", "Noop",
     "Acknowledged", "NotFound", "Error"}
PublishLost == Finished /\ last.subject /\ last.published = <<>>
C32_Witness ==
    /\ Finished /\ ~last.subject
    /\ last.req.verb = "deploy"
    /\ last.wrote # NoWrite
    /\ last.notes # <<>>
    /\ last.published = <<>>
C32_WitnessReplied ==
    /\ Finished /\ last.subject
    /\ last.req.verb = "delete" /\ last.reply.result = "Noop"
    /\ last.published = <<last.reply>>
NamesDistinct(cs) == \A i, j \in DOMAIN cs : i # j => cs[i].name # cs[j].name
IdsDistinct(cs) ==
    \A i, j \in DOMAIN cs : i # j /\ cs[i].id # None => cs[i].id # cs[j].id
TargetsDistinct(cs) ==
    \A i \in DOMAIN cs : \A j, k \in DOMAIN cs[i].traits :
        /\ j # k
        /\ cs[i].traits[j].kind = "Link"
        /\ cs[i].traits[k].kind = "Link"
        => cs[i].traits[j].target # cs[i].traits[k].target
TargetsNamed(cs) ==
    \A i \in DOMAIN cs : LinkTargets(cs[i]) \subseteq {cs[j].name : j \in DOMAIN cs}
EarliestRule(manifest) ==
    IF ~manifest.schema THEN "schema"
    ELSE IF ~manifest.labels THEN "labels"
    ELSE IF ~NamesDistinct(manifest.components) THEN "duplicate_name"
    ELSE IF ~IdsDistinct(manifest.components) THEN "duplicate_id"
    ELSE IF ~TargetsDistinct(manifest.components) THEN "duplicate_target"
    ELSE IF ~TargetsNamed(manifest.components) THEN "missing_capability"
    ELSE None
C34_EarliestRuleNamed ==
    \A c \in DOMAIN validated.results :
        validated.results[c] = EarliestRule(validated.manifest)

\* C35: each schema cell is initialized at most once, whatever the number
\* of tasks inside validate_manifest: the instance it holds is the first one
\* made and no second one is made, and every validation, whether it raced
\* with the initialization or came later, ran against that instance.
C35_SchemaInitializedOnce ==
    /\ \A c \in Cells : cells.made[c] <= 1 /\ cells.id[c] = cells.made[c]
    /\ \A t \in Tasks :
           /\ cells.pc[t] = "validate" => cells.id[OAM_JSON_SCHEMA] = 1
           /\ cells.used[t] # 0 => cells.used[t] = cells.id[OAM_JSON_SCHEMA]
C35_Witness ==
    /\ \A t \in Tasks : cells.used[t] = 1 /\ cells.calls[t] = 2
    /\ cells.made[OAM_JSON_SCHEMA] = 1
C35_WitnessRace ==
    \E t, u \in Tasks :
        /\ cells.pc[t] = "wait" /\ cells.on[t] = OAM_JSON_SCHEMA
        /\ cells.pc[u] = "validate"

\* C36: valid_oam_label accepts a label exactly when its key is a valid
\* name, or is a valid DNS-subdomain prefix, the first '/' and a valid name;
\* whatever the label's value is.
Expand(run) == [i \in 1..run.n |-> run.ch]
RECURSIVE Text(_)
Text(s) == IF s = <<>> THEN <<>> ELSE Expand(Head(s)) \o Text(Tail(s))
Letters == {"a"}
Alphanumerics == {"a", "1"}
NameText(w) ==
    /\ Len(w) \in 1..63
    /\ w[1] \in Alphanumerics /\ w[Len(w)] \in Alphanumerics
    /\ \A i \in DOMAIN w : w[i] \in Alphanumerics \cup {"-", "_", "."}
PrefixText(w) ==
    /\ Len(w) \in 1..253
    /\ w[1] # "." /\ w[Len(w)] # "."
    /\ \A i \in 1..(Len(w) - 1) : ~(w[i] = "." /\ w[i + 1] = ".")
    /\ \A i \in DOMAIN w : w[i] \in Alphanumerics \cup {"-", "."}
    /\ \A i \in DOMAIN w : (i = 1 \/ w[i - 1] = ".") => w[i] \in Letters
    /\ \A j \in DOMAIN w : (j = Len(w) \/ w[j + 1] = ".") => w[j] \in Alphanumerics
    /\ \A i \in DOMAIN w : (i = 1 \/ w[i - 1] = ".") =>
           ((i + 63) \in DOMAIN w => \E d \in i..(i + 63) : w[d] = ".")
KeyText(w) ==
    \/ NameText(w)
    \/ \E i \in DOMAIN w :
           /\ w[i] = "/"
           /\ \A j \in 1..(i - 1) : w[j] # "/"
           /\ PrefixText(SubSeq(w, 1, i - 1))
           /\ NameText(SubSeq(w, i + 1, Len(w)))
C36_LabelAccepted ==
    \A c \in DOMAIN label.results : label.results[c] <=> KeyText(Text(label.key))
C36_Witness ==
    /\ Len(label.results) = 2 /\ label.results[2]
    /\ Len(Text(label.key)) = 255
    /\ label.value # <<>>
C36_WitnessTooLong ==
    /\ Len(label.results) = 2 /\ ~label.results[2]
    /\ Len(Text(label.key)) = 256
    /\ label.key[1].n = 62

====
